---- MODULE Spec2Model ----
(***************************************************************************)
(* Market-data plant of tbv8: the bar store, the backfill paging loop, the *)
(* 1m -> higher-timeframe aggregator and the plant that orchestrates them. *)
(* Timestamps are epoch milliseconds, as in the source.                    *)
(***************************************************************************)
EXTENDS Integers, Sequences, FiniteSets, TLC

(***************************************************************************)
(* Bounds of the model.                                                    *)
(***************************************************************************)
\* Number of one-minute grid points on which the upstream exchange has data.
MaxMinutes == 4
\* Page size of the backfill paging loop (the source asks for limit=1000).
PageLimit == 2
\* Longest input sequence handed to aggregate_from_1m.
MaxAggLen == 3
\* Number of one-minute grid points the aggregator's inputs are drawn from.
AggMinutes == 6

(***************************************************************************)
(* Time model: packages/common/timeframes.py, packages/common/constants.py *)
(***************************************************************************)
BASE_TF_MS == 60000

\* A timeframe token "<n><unit>" is kept as its two parsed groups.
Tf(n, u) == [n |-> n, unit |-> u]

BASE_TIMEFRAME == Tf(1, "m")

UnitMs(u) ==
    CASE u = "s" -> 1000
      [] u = "m" -> 60000
      [] u = "h" -> 3600000
      [] u = "d" -> 86400000
      [] u = "w" -> 604800000

timeframe_to_ms(tf) == tf.n * UnitMs(tf.unit)

floor_ts_to_tf(ts_ms, tf) ==
    (ts_ms \div timeframe_to_ms(tf)) * timeframe_to_ms(tf)

ceil_ts_to_tf(ts_ms, tf) ==
    IF ts_ms % timeframe_to_ms(tf) = 0
    THEN ts_ms
    ELSE ((ts_ms \div timeframe_to_ms(tf)) + 1) * timeframe_to_ms(tf)

(***************************************************************************)
(* Values.  An optional value is the empty tuple or a one-element tuple.   *)
(***************************************************************************)
None == <<>>
Some(x) == <<x>>

OHLCV(ts, o, h, l, c, v) ==
    [ts_ms |-> ts, open |-> o, high |-> h, low |-> l, close |-> c, volume |-> v]

Max2(a, b) == IF a >= b THEN a ELSE b
Min2(a, b) == IF a <= b THEN a ELSE b

SetMax(S) == CHOOSE x \in S : \A y \in S : y <= x
SetMin(S) == CHOOSE x \in S : \A y \in S : x <= y

(***************************************************************************)
(* Aggregator: packages/common/backfill/aggregate.py                       *)
(***************************************************************************)
\* _validate_target_tf raises ValueError unless the target is longer than 1m.
ValidTargetTf(tf) == timeframe_to_ms(tf) > 60000

\* _AggState(ts_ms=buck, ...) opened by the first bar of a bucket.
\* The source's st_bucket always equals st.ts_ms.
NewAggState(buck, b) == OHLCV(buck, b.open, b.high, b.low, b.close, b.volume)

\* A later bar of the same bucket folded into the running state.
AggFold_keeps_first_close(st, b) ==
    OHLCV(st.ts_ms, st.open, Max2(st.high, b.high), Min2(st.low, b.low),
          st.close, st.volume + b.volume)

AggFold(st, b) ==
    OHLCV(st.ts_ms, st.open, Max2(st.high, b.high), Min2(st.low, b.low),
          b.close, st.volume + b.volume)

\* The test on the bucket still open when the loop ends.
FinalBucketComplete_always(st_bucket, tf_ms, complete_end_ms) == TRUE

FinalBucketComplete(st_bucket, tf_ms, complete_end_ms) ==
    (st_bucket + tf_ms) <= complete_end_ms

\* The for loop over the input bars; st is None or Some(state).
RECURSIVE AggLoop(_, _, _, _, _, _)
AggLoop(in, i, st, out, timeframe, complete_end_ms) ==
    IF i > Len(in)
    THEN [st |-> st, out |-> out]
    ELSE LET b == in[i]
             buck == floor_ts_to_tf(b.ts_ms, timeframe)
         IN  IF buck >= complete_end_ms
             THEN [st |-> st, out |-> out]
             ELSE IF st = None
             THEN AggLoop(in, i + 1, Some(NewAggState(buck, b)), out,
                          timeframe, complete_end_ms)
             ELSE IF buck = st[1].ts_ms
             THEN AggLoop(in, i + 1, Some(AggFold(st[1], b)), out,
                          timeframe, complete_end_ms)
             ELSE AggLoop(in, i + 1, Some(NewAggState(buck, b)),
                          Append(out, st[1]), timeframe, complete_end_ms)

\* aggregate_from_1m for a valid target timeframe.
aggregate_from_1m(in, timeframe, complete_end_ms) ==
    LET r == AggLoop(in, 1, None, <<>>, timeframe, complete_end_ms)
    IN  IF r.st # None
           /\ FinalBucketComplete(r.st[1].ts_ms, timeframe_to_ms(timeframe),
                                  complete_end_ms)
        THEN Append(r.out, r.st[1])
        ELSE r.out

(***************************************************************************)
(* State.                                                                  *)
(***************************************************************************)
VARIABLES
    upstream,          \* the bars the exchange serves (fixed during a behaviour)
    clock,             \* the last reading of now_ms()
    bars,              \* committed rows of the tables bars_<tf>, per timeframe
    ohlcv_1m,          \* committed rows of the table ohlcv_1m
    history_coverage,  \* committed rows of the table history_coverage
    pending,           \* rows written to bars_1m by the open connection, uncommitted
    pc,                \* "idle", or "paging" inside BackfillService._backfill_1m
    req,               \* the request of the current or last call
    win,               \* its resolved range [start_ms, end_ms)
    cursor,            \* the paging cursor
    pages,             \* pages committed by the current or last call
    fetched,           \* the bars of those pages
    outcome,           \* how the last call ended
    repeat,            \* the current or last call repeats the call before it
    all_ok,            \* no call so far ended in an adapter or validation error
    agg_in,            \* aggregate_from_1m: the input bars
    agg_tf,            \* aggregate_from_1m: the target timeframe
    agg_end,           \* aggregate_from_1m: complete_end_ms
    agg_out,           \* aggregate_from_1m: None before the call, Some(result) after
    known_missing,     \* committed rows of the table known_missing_ranges
    rp_pc,             \* "idle", or "chunks" inside the loops of repair_gaps
    rp_scan,           \* repair_gaps: scan_start_ms and scan_end_ms_excl
    rp_gaps,           \* repair_gaps: the gaps find_gaps_tf returned
    rp_i,              \* repair_gaps: index of the gap being repaired
    rp_cursor,         \* repair_gaps: cursor inside the gap
    rp_calls,          \* adapter calls of the current or last run of repair_gaps
    rp_wrote,          \* bars the current or last run of repair_gaps upserted
    rp_recorded,       \* known-missing rows it recorded
    rp_prev,           \* what the run of repair_gaps before it did
    rp_outcome,        \* how the last run of repair_gaps ended
    fn_arg,            \* arguments of the store or runtime function applied
    fn_ret             \* None before the call, Some(result) after

store_vars == <<bars, ohlcv_1m, history_coverage, pending>>
call_vars == <<pc, req, win, cursor, pages, fetched, outcome, repeat, all_ok>>
agg_vars == <<agg_in, agg_tf, agg_end, agg_out>>
repair_vars == <<rp_pc, rp_scan, rp_gaps, rp_i, rp_cursor, rp_calls, rp_wrote,
                 rp_recorded, rp_prev, rp_outcome>>
fn_vars == <<fn_arg, fn_ret>>
ext_vars == <<known_missing, repair_vars, fn_vars>>

vars == <<upstream, clock, store_vars, call_vars, agg_vars, ext_vars>>

(***************************************************************************)
(* Bar store: packages/common/backfill/sqlite_store.py                     *)
(***************************************************************************)
\* The derived timeframe the model requests next to the base timeframe.
DerivedTf == Tf(2, "m")

StoreTfs == { BASE_TIMEFRAME, DerivedTf }

TsOf(rows) == { r.ts_ms : r \in rows }

\* INSERT OR IGNORE of one row: a stored row with the same key stays.
UpsertRow_ignore(table, r) ==
    IF \E x \in table : x.ts_ms = r.ts_ms THEN table ELSE table \cup { r }

\* INSERT ... ON CONFLICT(venue, symbol, ts_ms) DO UPDATE of one row.
UpsertRow(table, r) == { x \in table : x.ts_ms # r.ts_ms } \cup { r }

\* upsert_tf / upsert_1m / upsert_agg: the rows of a sequence, in order.
RECURSIVE upsert_tf(_, _)
upsert_tf(table, rows) ==
    IF rows = <<>> THEN table
    ELSE upsert_tf(UpsertRow(table, Head(rows)), Tail(rows))

\* What the open connection reads: committed rows overlaid by its own writes.
ConnView(table, pend) == { x \in table : x.ts_ms \notin TsOf(pend) } \cup pend

get_max_ts(table) == IF table = {} THEN None ELSE Some(SetMax(TsOf(table)))

get_min_ts(table) == IF table = {} THEN None ELSE Some(SetMin(TsOf(table)))

CoverageRow(tf, start_ms, end_ms, updated_at_ms) ==
    [timeframe |-> tf, start_ms |-> start_ms, end_ms |-> end_ms,
     updated_at_ms |-> updated_at_ms]

\* None, or Some(row) of the one row with this key.
get_coverage(cov, tf) ==
    IF \E c \in cov : c.timeframe = tf
    THEN Some(CHOOSE c \in cov : c.timeframe = tf)
    ELSE None

\* INSERT ... ON CONFLICT(venue, symbol, timeframe) DO UPDATE: overwrites.
upsert_coverage(cov, row) ==
    { c \in cov : c.timeframe # row.timeframe } \cup { row }

\* Rows of a table as a sequence ORDER BY ts_ms ASC.
RECURSIVE OrderByTs(_)
OrderByTs(rows) ==
    IF rows = {} THEN <<>>
    ELSE LET r == CHOOSE x \in rows : \A y \in rows : x.ts_ms <= y.ts_ms
         IN  <<r>> \o OrderByTs(rows \ { r })

Take(s, n) == SubSeq(s, 1, Min2(n, Len(s)))

GapRange(start_ms, end_ms_excl) == [start_ms |-> start_ms, end_ms_excl |-> end_ms_excl]

FIND_GAPS_LIMIT == 10000

\* find_gaps_tf: LAG over the ordered rows of the scan window, the pairs whose
\* delta is not tf_ms, ordered by gap_start, LIMIT, then only gap_end > gap_start.
find_gaps_tf(table, tf, start_ms, end_ms_excl, limit) ==
    LET ordered == OrderByTs({ r \in table :
                       /\ (start_ms # None => r.ts_ms >= start_ms[1])
                       /\ (end_ms_excl # None => r.ts_ms < end_ms_excl[1]) })
        lagged == [i \in 1 .. (Len(ordered) - 1) |->
                       [prev_ts |-> ordered[i].ts_ms, ts_ms |-> ordered[i + 1].ts_ms]]
        gaps == SelectSeq(lagged, LAMBDA p : (p.ts_ms - p.prev_ts) # timeframe_to_ms(tf))
        rows == Take(gaps, limit)
        out == SelectSeq(rows, LAMBDA p : p.ts_ms > p.prev_ts + timeframe_to_ms(tf))
    IN  [i \in 1 .. Len(out) |->
            GapRange(out[i].prev_ts + timeframe_to_ms(tf), out[i].ts_ms)]

\* A row of known_missing_ranges; `series` stands for (venue, symbol).
KnownMissingRow(series, tf, start_ms, end_ms_excl, reason, updated_at_ms) ==
    [series |-> series, timeframe |-> tf, start_ms |-> start_ms,
     end_ms_excl |-> end_ms_excl, reason |-> reason, updated_at_ms |-> updated_at_ms]

SameKnownMissingKey(a, b) ==
    /\ a.series = b.series
    /\ a.timeframe = b.timeframe
    /\ a.start_ms = b.start_ms
    /\ a.end_ms_excl = b.end_ms_excl

\* INSERT OR REPLACE: the new row takes the place of one with the same key.
record_known_missing_range_replace(catalog, row) ==
    { k \in catalog : ~SameKnownMissingKey(k, row) } \cup { row }

\* INSERT OR IGNORE: a row with the same primary key stays as it is.
record_known_missing_range(catalog, row) ==
    IF \E k \in catalog : SameKnownMissingKey(k, row)
    THEN catalog
    ELSE catalog \cup { row }

\* SELECT 1 ... WHERE venue=? AND symbol=? AND timeframe=? AND start_ms<=?
\* AND end_ms_excl>=? LIMIT 1
is_known_missing_range_overlap(catalog, series, tf, start_ms, end_ms_excl) ==
    \E k \in catalog :
        /\ k.series = series
        /\ k.timeframe = tf
        /\ k.start_ms < end_ms_excl
        /\ k.end_ms_excl > start_ms

is_known_missing_range(catalog, series, tf, start_ms, end_ms_excl) ==
    \E k \in catalog :
        /\ k.series = series
        /\ k.timeframe = tf
        /\ k.start_ms <= start_ms
        /\ k.end_ms_excl >= end_ms_excl

(***************************************************************************)
(* Adapter: packages/adapters/binance_spot/backfill.py                     *)
(***************************************************************************)
\* An exchange that ignores startTime and answers with its first klines.
ServerKlines_from_first(start_ms, limit) == Take(OrderByTs(upstream), limit)

\* The exchange answers startTime/limit with its first `limit` klines at or
\* after startTime.
ServerKlines(start_ms, limit) ==
    Take(OrderByTs({ k \in upstream : k.ts_ms >= start_ms }), limit)

\* fetch_ohlcv when a request succeeds: sort, then drop rows at or after end_ms.
fetch_ohlcv(start_ms, end_ms, limit) ==
    SelectSeq(ServerKlines(start_ms, limit), LAMBDA b : b.ts_ms < end_ms)

(***************************************************************************)
(* Backfill service: packages/common/backfill/service.py                   *)
(***************************************************************************)
\* conn.commit() after a page: the connection's writes become durable.
CommitPage_deferred(table, pend) == [table |-> table, pending |-> pend]

CommitPage(table, pend) ==
    [table |-> ConnView(table, pend), pending |-> {}]

\* Where fetching starts: bootstrap at start_ms, tail update after max_ts.
FetchStart(max_ts, start_ms) ==
    IF max_ts = None
    THEN start_ms
    ELSE Max2(max_ts[1] + timeframe_to_ms(BASE_TIMEFRAME), start_ms)

\* The coverage row written after the paging loop.
ServiceCoverageRow_end_now(start_ms, end_ms, now) ==
    CoverageRow(BASE_TIMEFRAME, start_ms, floor_ts_to_tf(now, BASE_TIMEFRAME), now)

ServiceCoverageRow(start_ms, end_ms, now) ==
    CoverageRow(BASE_TIMEFRAME, start_ms, end_ms, now)

\* _aggregate_all(conn, ..., timeframes): with timeframes = [base] there is no
\* target and it returns at once.
AggregateAllTargets(timeframes) ==
    { timeframes[i] : i \in { j \in 1 .. Len(timeframes) : timeframes[j] # BASE_TIMEFRAME } }

(***************************************************************************)
(* Plant: packages/market_data/plant.py                                    *)
(***************************************************************************)
\* Always include the base timeframe, then deduplicate preserving order.
RECURSIVE Dedupe(_, _)
Dedupe(tfs, seen) ==
    IF tfs = <<>> THEN <<>>
    ELSE IF Head(tfs) \in seen THEN Dedupe(Tail(tfs), seen)
    ELSE <<Head(tfs)>> \o Dedupe(Tail(tfs), seen \cup { Head(tfs) })

NormalizeTimeframes(tfs) ==
    IF \E i \in 1 .. Len(tfs) : tfs[i] = BASE_TIMEFRAME
    THEN Dedupe(tfs, {})
    ELSE Dedupe(<<BASE_TIMEFRAME>> \o tfs, {})

ResolveStartMs(r) == floor_ts_to_tf(r.start_date, BASE_TIMEFRAME)

ResolveEndMs(r, now) ==
    IF r.end_date # None
    THEN floor_ts_to_tf(r.end_date[1], BASE_TIMEFRAME)
    ELSE floor_ts_to_tf(now, BASE_TIMEFRAME)

\* Fields of GapRepairConfig, and the keywords the plant constructs it with.
GapRepairConfigFields == { "max_gap_minutes", "chunk_limit", "max_ranges" }

PlantRepairConfigKeywords == { "max_gap_minutes", "chunk_minutes", "max_ranges" }

\* What the plant does once BackfillService.ensure_history has returned: the
\* dataclass constructor rejects an unknown keyword with TypeError, which
\* leaves ensure_history before gap repair and derived aggregation.
PlantAfterBackfill ==
    IF PlantRepairConfigKeywords \subseteq GapRepairConfigFields
    THEN "ok"
    ELSE "TypeError"

(***************************************************************************)
(* Chunked aggregation: packages/common/backfill/aggregate.py and the     *)
(* aggregator tool apps/aggregator/main.py                                 *)
(***************************************************************************)
\* load_1m_range: SELECT ... FROM ohlcv_1m WHERE ts_ms >= ? AND ts_ms < ?
\* ORDER BY ts_ms.  The base bars themselves are written to bars_1m.
load_1m_range(start_ms, end_ms) ==
    OrderByTs({ r \in ohlcv_1m : r.ts_ms >= start_ms /\ r.ts_ms < end_ms })

DAY_MS == 86400000

\* The while loop of build_aggregates for one target timeframe.
RECURSIVE BuildChunks(_, _, _, _, _, _)
BuildChunks(table, chunk_cursor, start_ms, end_ms, tf, chunk_ms) ==
    IF ~(chunk_cursor < end_ms)
    THEN table
    ELSE LET chunk_end == Min2(chunk_cursor + chunk_ms, end_ms)
             max_tf_ms == Max2(0, timeframe_to_ms(tf))
             load_start == Max2(start_ms, chunk_cursor - max_tf_ms)
             base == load_1m_range(load_start, chunk_end)
             complete_end == floor_ts_to_tf(chunk_end, tf)
             agg == aggregate_from_1m(base, tf, complete_end)
             tf_cursor == floor_ts_to_tf(chunk_cursor, tf)
             filtered == SelectSeq(agg, LAMBDA c : tf_cursor <= c.ts_ms /\ c.ts_ms < complete_end)
         IN  IF base = <<>>
             THEN BuildChunks(table, chunk_end, start_ms, end_ms, tf, chunk_ms)
             ELSE BuildChunks(upsert_tf(table, filtered), chunk_end, start_ms,
                              end_ms, tf, chunk_ms)

\* build_aggregates(conn, start_ms, end_ms, timeframes=[tf], chunk_days): the
\* rows of bars_<tf> after it.
build_aggregates(table, start_ms, end_ms, tf, chunk_days) ==
    BuildChunks(table, floor_ts_to_tf(start_ms, BASE_TIMEFRAME),
                floor_ts_to_tf(start_ms, BASE_TIMEFRAME),
                floor_ts_to_tf(end_ms, BASE_TIMEFRAME), tf, chunk_days * DAY_MS)

\* _resolve_range_ms of the aggregator tool: None when it raises.
ResolveRangeMs(start_iso, end_iso, now) ==
    LET cov == get_coverage(history_coverage, BASE_TIMEFRAME)
        mn == get_min_ts(bars[BASE_TIMEFRAME])
        mx == get_max_ts(bars[BASE_TIMEFRAME])
        start_ms == IF start_iso # None THEN start_iso
                    ELSE IF cov # None THEN Some(cov[1].start_ms)
                    ELSE mn
        end_ms == IF end_iso # None THEN end_iso
                  ELSE IF cov # None THEN Some(cov[1].end_ms)
                  ELSE IF mx = None THEN None
                  ELSE Some(Min2(mx[1] + BASE_TF_MS, now))
    IN  IF start_ms = None \/ end_ms = None THEN None
        ELSE IF end_ms[1] <= start_ms[1] THEN None
        ELSE Some([start_ms |-> start_ms[1], end_ms |-> end_ms[1]])

(***************************************************************************)
(* Inputs.                                                                 *)
(***************************************************************************)
GridTimes == { k * BASE_TF_MS : k \in 0 .. (MaxMinutes - 1) }

\* One timestamp off the one-minute grid that the exchange may serve.
OffGridTimes == { BASE_TF_MS + 30000 }

UpstreamBar(t) == OHLCV(t, 1, 2, 1, 2, 1)

\* An aligned start and one inside a minute.
StartDates == { 0, BASE_TF_MS + 30000 }

\* No end date (the clock decides), or an explicit one.
EndDates ==
    { None } \cup { Some(k * BASE_TF_MS) : k \in 1 .. (MaxMinutes - 1) }

NowValues == { MaxMinutes * BASE_TF_MS + 1000, (MaxMinutes + 1) * BASE_TF_MS + 1000 }

\* The timeframes of a request; the plant adds the base timeframe itself.
TimeframeLists == { <<DerivedTf>> }

Requests ==
    [start_date : StartDates, end_date : EndDates, timeframes : TimeframeLists]

\* chunk_days as the repository passes it: the test and the default.
ChunkDays == { 1, 7 }

AggregatorStarts == { None, Some(0) }

AggregatorEnds == { None, Some((MaxMinutes - 1) * BASE_TF_MS) }

NoRequest == [start_date |-> 0, end_date |-> None, timeframes |-> <<>>]

NoWindow == [start_ms |-> 0, end_ms |-> 0]

AggIdle ==
    /\ agg_in = <<>>
    /\ agg_tf = DerivedTf
    /\ agg_end = 0
    /\ agg_out = None

NoScan == [start_ms |-> None, end_ms_excl |-> None]

NoRun == [scan |-> NoScan, ended |-> "none", calls |-> {}, wrote |-> {}, recorded |-> {}]

RepairIdle ==
    /\ rp_pc = "idle"
    /\ rp_scan = NoScan
    /\ rp_gaps = <<>>
    /\ rp_i = 0
    /\ rp_cursor = 0
    /\ rp_calls = {}
    /\ rp_wrote = {}
    /\ rp_recorded = {}
    /\ rp_prev = NoRun
    /\ rp_outcome = "none"

NoCall == [fn |-> "none"]

FnIdle ==
    /\ fn_arg = NoCall
    /\ fn_ret = None

Init ==
    /\ upstream \in { { UpstreamBar(t) : t \in T } : T \in SUBSET (GridTimes \cup OffGridTimes) }
    /\ clock = 0
    /\ bars = [tf \in StoreTfs |-> {}]
    /\ ohlcv_1m = {}
    /\ history_coverage = {}
    /\ pending = {}
    /\ pc = "idle"
    /\ req = NoRequest
    /\ win = NoWindow
    /\ cursor = 0
    /\ pages = 0
    /\ fetched = {}
    /\ outcome = "none"
    /\ repeat = FALSE
    /\ all_ok = TRUE
    /\ AggIdle
    /\ known_missing = {}
    /\ RepairIdle
    /\ FnIdle

(***************************************************************************)
(* MarketDataPlant.ensure_history, which runs BackfillService.ensure_history *)
(* for the base timeframe.  A step runs from one suspension point (the       *)
(* call, or the return of adapter.fetch_ohlcv) to the next.                  *)
(***************************************************************************)
\* The call repeats the previous one: same request, same resolved range, and
\* the previous call met no adapter error.
IsRepeat(r, w) ==
    /\ outcome \in { "TypeError", "ValueError" }
    /\ r = req
    /\ w = win

\* plant.py 78-79: end_ms <= start_ms raises ValueError before any write.
EnsureHistoryInvalid(r, now) ==
    /\ pc = "idle"
    /\ now >= clock
    /\ LET w == [start_ms |-> ResolveStartMs(r), end_ms |-> ResolveEndMs(r, now)]
       IN  /\ w.end_ms <= w.start_ms
           /\ repeat' = IsRepeat(r, w)
           /\ win' = w
    /\ clock' = now
    /\ req' = r
    /\ outcome' = "ValueError"
    /\ all_ok' = FALSE
    /\ cursor' = 0
    /\ pages' = 0
    /\ fetched' = {}
    /\ UNCHANGED <<upstream, store_vars, pc, agg_vars, ext_vars>>

\* service.py 61-86: history already reaches end_ms; nothing is fetched and no
\* coverage row is written.  The plant then fails to build its repair config.
EnsureHistoryUpToDate(r, now) ==
    /\ pc = "idle"
    /\ now >= clock
    /\ LET w == [start_ms |-> ResolveStartMs(r), end_ms |-> ResolveEndMs(r, now)]
           max_ts == get_max_ts(ConnView(bars[BASE_TIMEFRAME], pending))
       IN  /\ w.end_ms > w.start_ms
           /\ max_ts # None
           /\ FetchStart(max_ts, w.start_ms) >= w.end_ms
           /\ AggregateAllTargets(<<BASE_TIMEFRAME>>) = {}
           /\ repeat' = IsRepeat(r, w)
           /\ win' = w
           /\ cursor' = FetchStart(max_ts, w.start_ms)
    /\ clock' = now
    /\ req' = r
    /\ outcome' = PlantAfterBackfill
    /\ pages' = 0
    /\ fetched' = {}
    /\ UNCHANGED <<upstream, store_vars, pc, all_ok, agg_vars, ext_vars>>

\* service.py 64-97: bootstrap or tail update enters the paging loop.
EnsureHistoryBegin(r, now) ==
    /\ pc = "idle"
    /\ now >= clock
    /\ LET w == [start_ms |-> ResolveStartMs(r), end_ms |-> ResolveEndMs(r, now)]
           max_ts == get_max_ts(ConnView(bars[BASE_TIMEFRAME], pending))
       IN  /\ w.end_ms > w.start_ms
           /\ FetchStart(max_ts, w.start_ms) < w.end_ms
           /\ repeat' = IsRepeat(r, w)
           /\ win' = w
           /\ cursor' = FetchStart(max_ts, w.start_ms)
    /\ clock' = now
    /\ req' = r
    /\ pc' = "paging"
    /\ outcome' = "running"
    /\ pages' = 0
    /\ fetched' = {}
    /\ UNCHANGED <<upstream, store_vars, all_ok, agg_vars, ext_vars>>

\* service.py 97-125 and plant.py 102-107: after the loop the coverage row is
\* upserted and committed, the service returns, and the plant raises.
AfterLoop(table, pend) ==
    /\ history_coverage' =
          upsert_coverage(history_coverage,
                          ServiceCoverageRow(win.start_ms, win.end_ms, clock))
    /\ AggregateAllTargets(<<BASE_TIMEFRAME>>) = {}
    /\ bars' = [bars EXCEPT ![BASE_TIMEFRAME] = ConnView(table, pend)]
    /\ pending' = {}
    /\ pc' = "idle"
    /\ outcome' = PlantAfterBackfill

\* service.py 153-155: an empty page ends the loop.
PageEmpty ==
    /\ pc = "paging"
    /\ fetch_ohlcv(cursor, win.end_ms, PageLimit) = <<>>
    /\ AfterLoop(bars[BASE_TIMEFRAME], pending)
    /\ UNCHANGED <<upstream, clock, ohlcv_1m, req, win, cursor, pages, fetched,
                   repeat, all_ok, agg_vars, ext_vars>>

\* The page written and committed, and the cursor after it.
PageStep ==
    LET rows == fetch_ohlcv(cursor, win.end_ms, PageLimit)
        written == upsert_tf(ConnView(bars[BASE_TIMEFRAME], pending), rows)
        db == CommitPage(bars[BASE_TIMEFRAME],
                         { x \in written : x \notin bars[BASE_TIMEFRAME] })
        last_ts == floor_ts_to_tf(rows[Len(rows)].ts_ms, BASE_TIMEFRAME)
        next_cursor == last_ts + timeframe_to_ms(BASE_TIMEFRAME)
    IN  [rows |-> rows, db |-> db, next_cursor |-> next_cursor,
         more |-> next_cursor > cursor /\ next_cursor < win.end_ms]

\* service.py 157-169 and 144: a page is stored and the loop goes on.
PageMore ==
    /\ pc = "paging"
    /\ fetch_ohlcv(cursor, win.end_ms, PageLimit) # <<>>
    /\ PageStep.more
    /\ bars' = [bars EXCEPT ![BASE_TIMEFRAME] = PageStep.db.table]
    /\ pending' = PageStep.db.pending
    /\ cursor' = PageStep.next_cursor
    /\ pages' = pages + 1
    /\ fetched' = fetched \cup { PageStep.rows[i] : i \in 1 .. Len(PageStep.rows) }
    /\ UNCHANGED <<upstream, clock, ohlcv_1m, history_coverage, pc, req, win,
                   outcome, repeat, all_ok, agg_vars, ext_vars>>

\* service.py 157-169, 144 and 97-125: a page is stored and the loop ends,
\* because the cursor reached end_ms or did not advance.
PageLast ==
    /\ pc = "paging"
    /\ fetch_ohlcv(cursor, win.end_ms, PageLimit) # <<>>
    /\ ~PageStep.more
    /\ AfterLoop(PageStep.db.table, PageStep.db.pending)
    /\ cursor' = IF PageStep.next_cursor > cursor THEN PageStep.next_cursor ELSE cursor
    /\ pages' = pages + 1
    /\ fetched' = fetched \cup { PageStep.rows[i] : i \in 1 .. Len(PageStep.rows) }
    /\ UNCHANGED <<upstream, clock, ohlcv_1m, req, win, repeat, all_ok, agg_vars, ext_vars>>

\* backfill.py 58-90 and service.py 128-129: the adapter gives up after its
\* retries; the exception leaves ensure_history through `finally: conn.close()`,
\* which drops whatever the connection had not committed.
FetchFails ==
    /\ pc = "paging"
    /\ pending' = {}
    /\ pc' = "idle"
    /\ outcome' = "AdapterError"
    /\ all_ok' = FALSE
    /\ UNCHANGED <<upstream, clock, bars, ohlcv_1m, history_coverage, req, win,
                   cursor, pages, fetched, repeat, agg_vars, ext_vars>>

\* apps/aggregator/main.py 88-131: resolve the range, then build_aggregates
\* for the target timeframe.  A range that cannot be resolved raises.
BuildAggregates(start_iso, end_iso, chunk_days, now) ==
    /\ pc = "idle"
    /\ now >= clock
    /\ clock' = now
    /\ LET range == ResolveRangeMs(start_iso, end_iso, now)
       IN  IF range = None
           THEN /\ outcome' = "RangeError"
                /\ win' = NoWindow
                /\ bars' = bars
           ELSE /\ outcome' = "aggregated"
                /\ win' = [start_ms |-> floor_ts_to_tf(range[1].start_ms, BASE_TIMEFRAME),
                           end_ms |-> floor_ts_to_tf(range[1].end_ms, BASE_TIMEFRAME)]
                /\ bars' = [bars EXCEPT ![DerivedTf] =
                              build_aggregates(bars[DerivedTf], range[1].start_ms,
                                               range[1].end_ms, DerivedTf, chunk_days)]
    /\ req' = NoRequest
    /\ cursor' = 0
    /\ pages' = 0
    /\ fetched' = {}
    /\ repeat' = FALSE
    /\ UNCHANGED <<upstream, ohlcv_1m, history_coverage, pending, pc, all_ok, agg_vars, ext_vars>>

Next ==
    \/ \E r \in Requests, now \in NowValues : EnsureHistoryInvalid(r, now)
    \/ \E r \in Requests, now \in NowValues : EnsureHistoryUpToDate(r, now)
    \/ \E r \in Requests, now \in NowValues : EnsureHistoryBegin(r, now)
    \/ PageEmpty
    \/ PageMore
    \/ PageLast
    \/ FetchFails
    \/ \E a \in AggregatorStarts, b \in AggregatorEnds, d \in ChunkDays, now \in NowValues :
          BuildAggregates(a, b, d, now)

Spec == Init /\ [][Next]_vars

(***************************************************************************)
(* The aggregator as a function of its inputs.                             *)
(***************************************************************************)
\* Bars with distinguishable fields (low <= open, close <= high).
AggShapes ==
    { [open |-> 1, high |-> 5, low |-> 1, close |-> 2, volume |-> 1],
      [open |-> 2, high |-> 3, low |-> 0, close |-> 1, volume |-> 2],
      [open |-> 3, high |-> 4, low |-> 2, close |-> 3, volume |-> 4] }

AggTimes == { k * BASE_TF_MS : k \in 0 .. (AggMinutes - 1) }

AggBars ==
    { OHLCV(t, s.open, s.high, s.low, s.close, s.volume) :
        t \in AggTimes, s \in AggShapes }

\* Sorted ascending by ts_ms, as load_1m_range returns them.
Sorted(s) == \A i \in 1 .. (Len(s) - 1) : s[i].ts_ms <= s[i + 1].ts_ms

AggInputs ==
    { s \in UNION { [1 .. n -> AggBars] : n \in 0 .. MaxAggLen } : Sorted(s) }

AggTargets == { Tf(2, "m"), Tf(3, "m") }

AggEnds == { k * BASE_TF_MS : k \in 0 .. AggMinutes }

StoreIdle ==
    /\ upstream = {}
    /\ clock = 0
    /\ bars = [tf \in StoreTfs |-> {}]
    /\ ohlcv_1m = {}
    /\ history_coverage = {}
    /\ pending = {}
    /\ pc = "idle"
    /\ req = NoRequest
    /\ win = NoWindow
    /\ cursor = 0
    /\ pages = 0
    /\ fetched = {}
    /\ outcome = "none"
    /\ repeat = FALSE
    /\ all_ok = TRUE

AggInit ==
    /\ StoreIdle
    /\ known_missing = {}
    /\ RepairIdle
    /\ FnIdle
    /\ agg_in \in AggInputs
    /\ agg_tf \in AggTargets
    /\ agg_end \in AggEnds
    /\ agg_out = None

Aggregate ==
    /\ agg_out = None
    /\ ValidTargetTf(agg_tf)
    /\ agg_out' = Some(aggregate_from_1m(agg_in, agg_tf, agg_end))
    /\ UNCHANGED <<agg_in, agg_tf, agg_end, upstream, clock, store_vars, call_vars, ext_vars>>

AggNext == Aggregate

SpecAgg == AggInit /\ [][AggNext]_vars

(***************************************************************************)
(* Properties of aggregate_from_1m, checked under SpecAgg.                 *)
(***************************************************************************)
AggResult == agg_out[1]

\* Indices of the input bars that fall into the bucket starting at b.
InBucket(b) == { i \in 1 .. Len(agg_in) : floor_ts_to_tf(agg_in[i].ts_ms, agg_tf) = b }

EmittedStarts == { AggResult[j].ts_ms : j \in 1 .. Len(AggResult) }

RECURSIVE SumVolume(_)
SumVolume(I) ==
    IF I = {} THEN 0
    ELSE LET i == SetMin(I) IN agg_in[i].volume + SumVolume(I \ {i})

\* C4: a bucket start b is emitted if and only if some input bar floors to b
\* and b + target_tf_ms <= complete_end_ms; no partial or trailing bucket is
\* emitted.
C4_CompletedBucketOnly ==
    agg_out # None =>
        \A b \in EmittedStarts \cup { floor_ts_to_tf(t, agg_tf) : t \in AggTimes } :
            (b \in EmittedStarts)
                <=> (InBucket(b) # {} /\ b + timeframe_to_ms(agg_tf) <= agg_end)

\* A call that emitted a bucket and discarded a trailing bucket that had bars.
C4_Witness ==
    /\ agg_out # None
    /\ EmittedStarts # {}
    /\ \E i \in 1 .. Len(agg_in) :
          /\ floor_ts_to_tf(agg_in[i].ts_ms, agg_tf) < agg_end
          /\ floor_ts_to_tf(agg_in[i].ts_ms, agg_tf) + timeframe_to_ms(agg_tf) > agg_end

\* C5: every emitted bar carries the bucket start, the open of the earliest
\* and the close of the latest input bar of its bucket, the maximum high, the
\* minimum low and the summed volume of exactly the bars of that bucket, and
\* the emitted bars are strictly ascending (one per bucket).
C5_BucketOHLCV ==
    agg_out # None =>
        /\ \A j \in 1 .. Len(AggResult) :
              LET c == AggResult[j]
                  I == InBucket(c.ts_ms)
              IN  /\ I # {}
                  /\ c.ts_ms % timeframe_to_ms(agg_tf) = 0
                  /\ c.open = agg_in[SetMin(I)].open
                  /\ c.close = agg_in[SetMax(I)].close
                  /\ c.high = SetMax({ agg_in[i].high : i \in I })
                  /\ c.low = SetMin({ agg_in[i].low : i \in I })
                  /\ c.volume = SumVolume(I)
        /\ \A j \in 1 .. (Len(AggResult) - 1) :
              AggResult[j].ts_ms < AggResult[j + 1].ts_ms

\* Two buckets emitted, one of them folded from bars with different closes.
C5_Witness ==
    /\ agg_out # None
    /\ Len(AggResult) >= 2
    /\ \E j \in 1 .. Len(AggResult) :
          LET I == InBucket(AggResult[j].ts_ms)
          IN  /\ Cardinality(I) >= 2
              /\ agg_in[SetMin(I)].close # agg_in[SetMax(I)].close

(***************************************************************************)
(* Properties of the plant, the backfill service and the store, checked    *)
(* under Spec.                                                             *)
(***************************************************************************)
\* BackfillService.ensure_history returned normally in the last call (the
\* plant raised afterwards).
ServiceReturned == pc = "idle" /\ outcome = PlantAfterBackfill

BaseTs == TsOf(bars[BASE_TIMEFRAME])

\* C1: after successful ensure_history runs, every series with a coverage row
\* has coverage.end_ms - tf_ms equal to its largest stored ts_ms and
\* coverage.start_ms equal to its smallest stored ts_ms.
C1_CoverageMatchesData ==
    (ServiceReturned /\ all_ok) =>
        \A c \in history_coverage :
            /\ bars[c.timeframe] # {}
            /\ c.end_ms - timeframe_to_ms(c.timeframe) = SetMax(TsOf(bars[c.timeframe]))
            /\ c.start_ms = SetMin(TsOf(bars[c.timeframe]))

\* C2: the stored coverage of a series never moves its start_ms later nor its
\* end_ms earlier.
C2_CoverageMonotonic ==
    [][\A c \in history_coverage : \A d \in history_coverage' :
          d.timeframe = c.timeframe =>
              (d.start_ms <= c.start_ms /\ d.end_ms >= c.end_ms)]_vars

CoverageIntervals ==
    { [timeframe |-> c.timeframe, start_ms |-> c.start_ms, end_ms |-> c.end_ms] :
        c \in history_coverage }

C6_ChunkIndependent ==
    (pc = "idle" /\ outcome = "aggregated") =>
        LET base == OrderByTs({ r \in bars[BASE_TIMEFRAME] :
                        r.ts_ms >= win.start_ms /\ r.ts_ms < win.end_ms })
            single == aggregate_from_1m(base, DerivedTf,
                                        floor_ts_to_tf(win.end_ms, DerivedTf))
        IN  { r \in bars[DerivedTf] :
                /\ r.ts_ms >= floor_ts_to_tf(win.start_ms, DerivedTf)
                /\ r.ts_ms < floor_ts_to_tf(win.end_ms, DerivedTf) }
              = { single[i] : i \in 1 .. Len(single) }

\* The stored base series is contiguous from the requested start.
BaseContiguousFromStart ==
    /\ BaseTs # {}
    /\ BaseTs = { t \in win.start_ms .. SetMax(BaseTs) :
                    (t - win.start_ms) % BASE_TF_MS = 0 }

RequestsDerived == \E i \in 1 .. Len(req.timeframes) : req.timeframes[i] = DerivedTf

\* Starts of the derived buckets that the stored base series completes.
CompletedBuckets ==
    { b \in floor_ts_to_tf(win.start_ms, DerivedTf) .. SetMax(BaseTs) :
        /\ b % timeframe_to_ms(DerivedTf) = 0
        /\ b + timeframe_to_ms(DerivedTf) <= SetMax(BaseTs) + BASE_TF_MS }

\* C7: once ensure_history is over for a request with a derived timeframe
\* and a base series contiguous from the requested start, the derived series
\* holds exactly the completed buckets and its coverage row is
\* [first derived open, last derived open + tf_ms).
C7_DerivedAfterEnsure ==
    (ServiceReturned /\ RequestsDerived /\ BaseContiguousFromStart) =>
        /\ TsOf(bars[DerivedTf]) = CompletedBuckets
        /\ CompletedBuckets # {} =>
              { [start_ms |-> c.start_ms, end_ms |-> c.end_ms] :
                  c \in { x \in history_coverage : x.timeframe = DerivedTf } }
                = { [start_ms |-> SetMin(CompletedBuckets),
                     end_ms |-> SetMax(CompletedBuckets) + timeframe_to_ms(DerivedTf)] }

\* C8: when a later call of ensure_history has added base bars behind those
\* already stored, every bucket the base series now completes is in the
\* derived series and the derived coverage ends at the last of them plus tf_ms.
C8_IncrementalExtension ==
    (/\ ServiceReturned
     /\ RequestsDerived
     /\ BaseContiguousFromStart
     /\ fetched # {}
     /\ bars[BASE_TIMEFRAME] \ fetched # {}) =>
        /\ CompletedBuckets \subseteq TsOf(bars[DerivedTf])
        /\ CompletedBuckets # {} =>
              \E c \in history_coverage :
                  /\ c.timeframe = DerivedTf
                  /\ c.end_ms = SetMax(CompletedBuckets) + timeframe_to_ms(DerivedTf)

\* C9: when the adapter raises while page k is fetched, the bars of pages
\* 1..k-1 are committed, nothing at or after the cursor of page k is stored,
\* and the call has ended with the adapter's error.
C9_DurablePages ==
    (pc = "idle" /\ outcome = "AdapterError") =>
        /\ fetched \subseteq bars[BASE_TIMEFRAME]
        /\ pending = {}
        /\ \A r \in bars[BASE_TIMEFRAME] : r.ts_ms < cursor

\* The adapter failed on a page after at least one committed page.
C9_Witness ==
    /\ pc = "idle"
    /\ outcome = "AdapterError"
    /\ pages >= 1
    /\ fetched # {}

\* C10: every gap the scanner returns over the stored base series starts and
\* ends on the timeframe grid and is not empty.
C10_GapsOnGrid ==
    LET gaps == find_gaps_tf(bars[BASE_TIMEFRAME], BASE_TIMEFRAME, None, None,
                             FIND_GAPS_LIMIT)
    IN  \A i \in 1 .. Len(gaps) :
            /\ gaps[i].start_ms % timeframe_to_ms(BASE_TIMEFRAME) = 0
            /\ gaps[i].end_ms_excl % timeframe_to_ms(BASE_TIMEFRAME) = 0
            /\ gaps[i].end_ms_excl > gaps[i].start_ms

(***************************************************************************)
(* The known-missing catalogue: record_known_missing_range and             *)
(* is_known_missing_range applied to catalogues the writer builds.         *)
(***************************************************************************)
\* Number of one-minute grid steps the catalogued ranges and queries span.
KmMinutes == 3
\* Most rows the catalogue holds.
MaxKnownMissing == 2

TheSeries == "binance_spot BTC/USDT"

KmSeries == { TheSeries, "binance_spot ETH/USDT" }

KmRanges ==
    { r \in [start_ms : { k * BASE_TF_MS : k \in 0 .. KmMinutes },
             end_ms_excl : { k * BASE_TF_MS : k \in 0 .. KmMinutes }] :
        r.start_ms < r.end_ms_excl }

KnownMissingInit ==
    /\ StoreIdle
    /\ AggIdle
    /\ known_missing = {}
    /\ RepairIdle
    /\ FnIdle

RecordKnownMissing(series, tf, r) ==
    /\ Cardinality(known_missing) < MaxKnownMissing
    /\ known_missing' =
          record_known_missing_range(known_missing,
              KnownMissingRow(series, tf, r.start_ms, r.end_ms_excl,
                              "binance_no_data", clock))
    /\ fn_arg' = NoCall
    /\ fn_ret' = None
    /\ UNCHANGED <<upstream, clock, store_vars, call_vars, agg_vars, repair_vars>>

IsKnownMissing(series, tf, r) ==
    /\ fn_arg' = [fn |-> "is_known_missing_range", series |-> series, tf |-> tf,
                  start_ms |-> r.start_ms, end_ms_excl |-> r.end_ms_excl]
    /\ fn_ret' = Some(is_known_missing_range(known_missing, series, tf,
                                             r.start_ms, r.end_ms_excl))
    /\ UNCHANGED <<upstream, clock, store_vars, call_vars, agg_vars, known_missing,
                   repair_vars>>

KnownMissingNext ==
    \/ \E series \in KmSeries, tf \in StoreTfs, r \in KmRanges :
          RecordKnownMissing(series, tf, r)
    \/ \E series \in KmSeries, tf \in StoreTfs, r \in KmRanges :
          IsKnownMissing(series, tf, r)

SpecKnownMissing == KnownMissingInit /\ [][KnownMissingNext]_vars

\* Rows of the catalogue recorded for the queried series and timeframe.
QueriedRows ==
    { k \in known_missing : k.series = fn_arg.series /\ k.timeframe = fn_arg.tf }

\* The rows of a set jointly cover every grid step of the queried interval.
JointlyCovered(rows) ==
    \A t \in { k * BASE_TF_MS : k \in 0 .. KmMinutes } :
        (fn_arg.start_ms <= t /\ t < fn_arg.end_ms_excl) =>
            \E k \in rows : k.start_ms <= t /\ t < k.end_ms_excl

\* C11: is_known_missing_range answers true exactly when one recorded range
\* of the same series and timeframe contains the whole queried interval; rows
\* of another series or timeframe, and rows that cover it only jointly, do not
\* make it true.
C11_KnownMissingIff ==
    fn_arg.fn = "is_known_missing_range" =>
        /\ fn_ret[1] <=> \E k \in QueriedRows :
                            /\ k.start_ms <= fn_arg.start_ms
                            /\ fn_arg.end_ms_excl <= k.end_ms_excl
        /\ (\A k \in QueriedRows :
                k.start_ms > fn_arg.start_ms \/ k.end_ms_excl < fn_arg.end_ms_excl)
              => fn_ret[1] = FALSE

\* Two recorded ranges of the queried series and timeframe cover the interval
\* only jointly, and the answer is false.
C11_Witness ==
    /\ fn_arg.fn = "is_known_missing_range"
    /\ fn_ret = Some(FALSE)
    /\ Cardinality(QueriedRows) = 2
    /\ JointlyCovered(QueriedRows)

(***************************************************************************)
(* Gap repair: packages/common/backfill/repair.py, run by the tool         *)
(* apps/repair_gaps/main.py on the base series.  A step of the inner loop  *)
(* is one chunk window.                                                    *)
(***************************************************************************)
\* Number of one-minute grid points of the repaired series.
RepairMinutes == 6
\* GapRepairConfig.chunk_limit (the source's default is 1000).
RepairChunkLimit == 2
\* GapRepairConfig.max_ranges (the source's default is 200).
RepairMaxRanges == 2
\* GapRepairConfig.max_gap_minutes (the source's default is 60 * 24 * 14).
RepairMaxGapMinutes == 3

RepairTf == BASE_TIMEFRAME

RepairChunkMs == RepairChunkLimit * timeframe_to_ms(RepairTf)

RepairMaxGapMs == RepairMaxGapMinutes * 60000

\* A gap of any positive length is attempted.
GapAttempted_any_length(g) == ~(g.end_ms_excl - g.start_ms <= 0)

\* `for g in gaps`: the gap is attempted unless it is empty or too long.
GapAttempted(g) ==
    LET gap_len == g.end_ms_excl - g.start_ms
    IN  ~(gap_len <= 0) /\ ~(gap_len > RepairMaxGapMs)

\* Index of the first attempted gap at or after i, Len(gaps) + 1 when none.
RECURSIVE NextGap(_, _)
NextGap(gaps, i) ==
    IF i > Len(gaps) THEN i
    ELSE IF GapAttempted(gaps[i]) THEN i
    ELSE NextGap(gaps, i + 1)

GapCursor(g) == floor_ts_to_tf(g.start_ms, RepairTf)

GapEndExcl(g) == ceil_ts_to_tf(g.end_ms_excl, RepairTf)

\* The chunk window at the cursor of the gap being repaired.
WindowEndExcl == Min2(rp_cursor + RepairChunkMs, GapEndExcl(rp_gaps[rp_i]))

AdapterCall(start_ms, end_ms, limit) ==
    [start_ms |-> start_ms, end_ms |-> end_ms, limit |-> limit]

\* What a finished run leaves for the next one to be compared with.
RunSummary ==
    [scan |-> rp_scan, ended |-> rp_outcome, calls |-> rp_calls, wrote |-> rp_wrote,
     recorded |-> rp_recorded]

\* repair.py 49-70 and 81-106: scan for gaps, return at once when there is
\* none, otherwise enter the first gap that is attempted.
RepairBegin(scan) ==
    /\ rp_pc = "idle"
    /\ LET gaps == find_gaps_tf(bars[RepairTf], RepairTf, scan.start_ms,
                                scan.end_ms_excl, RepairMaxRanges)
           j == NextGap(gaps, 1)
       IN  /\ rp_gaps' = gaps
           /\ rp_i' = j
           /\ IF j > Len(gaps)
              THEN /\ rp_pc' = "idle"
                   /\ rp_cursor' = 0
                   /\ rp_outcome' = IF gaps = <<>> THEN "no_gaps" ELSE "done"
              ELSE /\ rp_pc' = "chunks"
                   /\ rp_cursor' = GapCursor(gaps[j])
                   /\ rp_outcome' = "running"
    /\ rp_scan' = scan
    /\ rp_calls' = {}
    /\ rp_wrote' = {}
    /\ rp_recorded' = {}
    /\ rp_prev' = RunSummary
    /\ UNCHANGED <<upstream, clock, store_vars, call_vars, agg_vars, known_missing,
                   fn_vars>>

\* repair.py 212 and 112, 81-106: the cursor moves to the end of the window;
\* at the end of the gap the next attempted gap is entered, or the run returns.
RepairAdvance(window_end_excl) ==
    IF window_end_excl < GapEndExcl(rp_gaps[rp_i])
    THEN /\ rp_cursor' = window_end_excl
         /\ UNCHANGED <<rp_i, rp_pc, rp_outcome>>
    ELSE LET j == NextGap(rp_gaps, rp_i + 1)
         IN  /\ rp_i' = j
             /\ IF j > Len(rp_gaps)
                THEN /\ rp_pc' = "idle"
                     /\ rp_cursor' = window_end_excl
                     /\ rp_outcome' = "done"
                ELSE /\ rp_cursor' = GapCursor(rp_gaps[j])
                     /\ UNCHANGED <<rp_pc, rp_outcome>>

\* repair.py 116-131: a window a recorded range contains is skipped.
RepairSkipKnownMissing ==
    /\ rp_pc = "chunks"
    /\ is_known_missing_range(known_missing, TheSeries, RepairTf, rp_cursor, WindowEndExcl)
    /\ RepairAdvance(WindowEndExcl)
    /\ UNCHANGED <<upstream, clock, store_vars, call_vars, agg_vars, known_missing,
                   rp_scan, rp_gaps, rp_calls, rp_wrote, rp_recorded, rp_prev, fn_vars>>

\* repair.py 133-151: the window's bars are fetched, upserted and committed.
RepairFillChunk ==
    /\ rp_pc = "chunks"
    /\ ~is_known_missing_range(known_missing, TheSeries, RepairTf, rp_cursor, WindowEndExcl)
    /\ LET rows == fetch_ohlcv(rp_cursor, WindowEndExcl, RepairChunkLimit)
       IN  /\ rows # <<>>
           /\ bars' = [bars EXCEPT ![RepairTf] = upsert_tf(bars[RepairTf], rows)]
           /\ rp_wrote' = rp_wrote \cup { rows[i] : i \in 1 .. Len(rows) }
    /\ rp_calls' = rp_calls \cup { AdapterCall(rp_cursor, WindowEndExcl, RepairChunkLimit) }
    /\ RepairAdvance(WindowEndExcl)
    /\ UNCHANGED <<upstream, clock, ohlcv_1m, history_coverage, pending, call_vars,
                   agg_vars, known_missing, rp_scan, rp_gaps, rp_recorded, rp_prev,
                   fn_vars>>

\* Any answer of the probe allows a row.
ProbeVerdict_any_probe(probe, window_end_excl) ==
    IF probe = <<>>
    THEN Some("binance_no_data_probe_empty")
    ELSE Some("binance_no_data")

\* Only a probe that sees a later candle allows a row.
ProbeVerdict_next_candle_only(probe, window_end_excl) ==
    IF probe # <<>> /\ probe[1].ts_ms >= window_end_excl
    THEN Some("binance_no_data")
    ELSE None

\* The row recorded after an empty window, if the probe allows one.
ProbeVerdict(probe, window_end_excl) ==
    IF probe # <<>> /\ probe[1].ts_ms >= window_end_excl
    THEN Some("binance_no_data")
    ELSE IF probe = <<>>
    THEN Some("binance_no_data_probe_empty")
    ELSE None

\* repair.py 152-210: nothing came back; the next candle is probed with
\* limit=1 up to the end of the gap and the window is recorded as known-missing.
RepairProbeChunk ==
    /\ rp_pc = "chunks"
    /\ ~is_known_missing_range(known_missing, TheSeries, RepairTf, rp_cursor, WindowEndExcl)
    /\ fetch_ohlcv(rp_cursor, WindowEndExcl, RepairChunkLimit) = <<>>
    /\ LET end_excl == GapEndExcl(rp_gaps[rp_i])
           verdict == ProbeVerdict(fetch_ohlcv(rp_cursor, end_excl, 1), WindowEndExcl)
           row == KnownMissingRow(TheSeries, RepairTf, rp_cursor, WindowEndExcl,
                                  verdict[1], clock)
       IN  /\ rp_calls' = rp_calls \cup { AdapterCall(rp_cursor, WindowEndExcl, RepairChunkLimit),
                                         AdapterCall(rp_cursor, end_excl, 1) }
           /\ IF verdict = None
              THEN UNCHANGED <<known_missing, rp_recorded>>
              ELSE /\ known_missing' = record_known_missing_range(known_missing, row)
                   /\ rp_recorded' = rp_recorded \cup { row }
    /\ RepairAdvance(WindowEndExcl)
    /\ UNCHANGED <<upstream, clock, store_vars, call_vars, agg_vars, rp_scan, rp_gaps,
                   rp_wrote, rp_prev, fn_vars>>

\* backfill.py 85-90 and repair.py 214-215: the adapter gives up; the
\* exception leaves repair_gaps, what was committed stays.
RepairFetchFails ==
    /\ rp_pc = "chunks"
    /\ ~is_known_missing_range(known_missing, TheSeries, RepairTf, rp_cursor, WindowEndExcl)
    /\ rp_pc' = "idle"
    /\ rp_outcome' = "AdapterError"
    /\ rp_calls' = rp_calls \cup { AdapterCall(rp_cursor, WindowEndExcl, RepairChunkLimit) }
    /\ UNCHANGED <<upstream, clock, store_vars, call_vars, agg_vars, known_missing,
                   rp_scan, rp_gaps, rp_i, rp_cursor, rp_wrote, rp_recorded, rp_prev,
                   fn_vars>>

RepairTimes == { k * BASE_TF_MS : k \in 0 .. (RepairMinutes - 1) } \cup OffGridTimes

\* Scan bounds as the tool passes them: none, or aligned to the timeframe.
RepairScans ==
    { NoScan,
      [start_ms |-> Some(floor_ts_to_tf(BASE_TF_MS + 30000, RepairTf)),
       end_ms_excl |-> Some(ceil_ts_to_tf((RepairMinutes - 1) * BASE_TF_MS - 30000, RepairTf))] }

\* A store an earlier backfill left: some of the bars the exchange serves now.
RepairInit ==
    /\ upstream \in { { UpstreamBar(t) : t \in T } : T \in SUBSET RepairTimes }
    /\ bars \in { [tf \in StoreTfs |-> IF tf = RepairTf THEN B ELSE {}] : B \in SUBSET upstream }
    /\ clock = 0
    /\ ohlcv_1m = {}
    /\ history_coverage = {}
    /\ pending = {}
    /\ pc = "idle"
    /\ req = NoRequest
    /\ win = NoWindow
    /\ cursor = 0
    /\ pages = 0
    /\ fetched = {}
    /\ outcome = "none"
    /\ repeat = FALSE
    /\ all_ok = TRUE
    /\ AggIdle
    /\ known_missing = {}
    /\ RepairIdle
    /\ FnIdle

RepairNext ==
    \/ \E scan \in RepairScans : RepairBegin(scan)
    \/ RepairSkipKnownMissing
    \/ RepairFillChunk
    \/ RepairProbeChunk
    \/ RepairFetchFails

SpecRepair == RepairInit /\ [][RepairNext]_vars

(***************************************************************************)
(* Properties of repair_gaps, checked under SpecRepair.                    *)
(***************************************************************************)
\* The current or last run repeats the run before it: the same scan window,
\* and the run before it returned normally.
Rerun ==
    /\ rp_prev.ended \in { "done", "no_gaps" }
    /\ rp_prev.scan = rp_scan

\* An adapter call of this run asks for a window the run before it filled or
\* recorded as known-missing.
CallsHandledWindow(calls, prev) ==
    \E c \in calls :
        \/ \E k \in prev.recorded : k.start_ms <= c.start_ms /\ c.end_ms <= k.end_ms_excl
        \/ \E p \in prev.calls :
              /\ p.start_ms <= c.start_ms
              /\ c.end_ms <= p.end_ms
              /\ \E w \in prev.wrote : p.start_ms <= w.ts_ms /\ w.ts_ms < p.end_ms

\* C12: a run of repair_gaps that repeats the run before it makes no adapter
\* call for a window that run filled or recorded as known-missing, and changes
\* neither the stored bars nor the known-missing catalogue.
C12_RepairIdempotent ==
    [][Rerun' =>
          /\ bars' = bars
          /\ known_missing' = known_missing
          /\ ~CallsHandledWindow(rp_calls', rp_prev')]_vars

(***************************************************************************)
(* Window resolution for readers: resolve_bar_window_from_coverage in      *)
(* packages/common/backfill/sqlite_store.py                                *)
(***************************************************************************)
Window(start_ms, end_ms_excl) ==
    [ok |-> TRUE, start_ms |-> start_ms, end_ms_excl |-> end_ms_excl]

Raises(error) == [ok |-> FALSE, error |-> error]

\* max(cov_start, requested_start_ms) if requested_start_ms is not None else cov_start
ClampStart(cov_start, requested_start_ms) ==
    IF requested_start_ms # None THEN Max2(cov_start, requested_start_ms[1]) ELSE cov_start

\* min(cov_end_excl, requested_end_ms) if requested_end_ms is not None else cov_end_excl
ClampEnd_requested(cov_end_excl, requested_end_ms) ==
    IF requested_end_ms # None THEN requested_end_ms[1] ELSE cov_end_excl

ClampEnd(cov_end_excl, requested_end_ms) ==
    IF requested_end_ms # None THEN Min2(cov_end_excl, requested_end_ms[1]) ELSE cov_end_excl

\* start must be a bar open at or after the requested start: ceil.
AlignStart_floor(start_raw, timeframe) == floor_ts_to_tf(start_raw, timeframe)

AlignStart(start_raw, timeframe) == ceil_ts_to_tf(start_raw, timeframe)

\* `if end_ms_excl <= start_ms: raise`
AlignedWindowEmpty_never(start_ms, end_ms_excl) == FALSE

AlignedWindowEmpty(start_ms, end_ms_excl) == end_ms_excl <= start_ms

resolve_bar_window_from_coverage(coverage, timeframe, requested_start_ms, requested_end_ms) ==
    LET cov == get_coverage(coverage, timeframe)
    IN  IF cov = None THEN Raises("No coverage")
        ELSE
        LET start_raw == ClampStart(cov[1].start_ms, requested_start_ms)
            end_raw_excl == ClampEnd(cov[1].end_ms, requested_end_ms)
            start_ms == AlignStart(start_raw, timeframe)
            end_ms_excl == floor_ts_to_tf(end_raw_excl, timeframe)
        IN  IF end_raw_excl <= start_raw THEN Raises("Resolved empty bar window")
            ELSE IF AlignedWindowEmpty(start_ms, end_ms_excl)
            THEN Raises("Resolved empty *aligned* bar window")
            ELSE Window(start_ms, end_ms_excl)

\* Timeframes the readers resolve windows for.
ResolveTfs == { BASE_TIMEFRAME, Tf(5, "m") }

\* Coverage rows: starts on and off the grid, ends on the grid of the row's
\* timeframe (end_ms is the open of the last complete bar plus tf_ms).
ResolveCoverageRows ==
    { CoverageRow(tf, s, e, 0) :
        tf \in ResolveTfs, s \in { 0, 100000, 300000 }, e \in { 600000, 900000 } }

RequestedStarts == { None, Some(0), Some(120000), Some(700000), Some(1000000) }

RequestedEnds == { None, Some(0), Some(250000), Some(650000), Some(1000000) }

\* An empty store and no call yet.
ResolveInit == KnownMissingInit

\* A writer of coverage has run: upsert_coverage of one row.
UpsertCoverage(row) ==
    /\ history_coverage' = upsert_coverage(history_coverage, row)
    /\ fn_arg' = NoCall
    /\ fn_ret' = None
    /\ UNCHANGED <<upstream, clock, bars, ohlcv_1m, pending, call_vars, agg_vars,
                   known_missing, repair_vars>>

\* sqlite_store.py 399-440: the resolver opens the store, reads the coverage
\* row and returns a window or raises; it writes nothing.
ResolveBarWindow(timeframe, requested_start_ms, requested_end_ms) ==
    /\ fn_arg' = [fn |-> "resolve_bar_window_from_coverage", timeframe |-> timeframe,
                  requested_start_ms |-> requested_start_ms,
                  requested_end_ms |-> requested_end_ms]
    /\ fn_ret' = Some(resolve_bar_window_from_coverage(history_coverage, timeframe,
                          requested_start_ms, requested_end_ms))
    /\ UNCHANGED <<upstream, clock, store_vars, call_vars, agg_vars, known_missing,
                   repair_vars>>

ResolveNext ==
    \/ \E row \in ResolveCoverageRows : UpsertCoverage(row)
    \/ \E tf \in ResolveTfs, a \in RequestedStarts, b \in RequestedEnds :
          ResolveBarWindow(tf, a, b)

SpecResolve == ResolveInit /\ [][ResolveNext]_vars

(***************************************************************************)
(* Properties of resolve_bar_window_from_coverage, checked under           *)
(* SpecResolve.                                                            *)
(***************************************************************************)
Resolved == fn_arg.fn = "resolve_bar_window_from_coverage"

\* The coverage row of the resolved timeframe (only read when there is one).
Cov == CHOOSE c \in history_coverage : c.timeframe = fn_arg.timeframe

HasCov == \E c \in history_coverage : c.timeframe = fn_arg.timeframe

\* requested ?? coverage
OrElse(requested, fallback) == IF requested = None THEN fallback ELSE requested[1]

\* C13: a returned window is exactly (ceil_to_tf(max(cov.start, requested
\* start or cov.start)), floor_to_tf(min(cov.end, requested end or cov.end)));
\* it is on the timeframe grid, not empty, inside the coverage interval and
\* inside the requested interval, and its end is cov.end when the requested
\* end lies beyond coverage.
C13_ResolvedWindow ==
    (Resolved /\ fn_ret[1].ok) =>
        LET w == fn_ret[1]
            tf == fn_arg.timeframe
            tf_ms == timeframe_to_ms(tf)
            rs == fn_arg.requested_start_ms
            re == fn_arg.requested_end_ms
        IN  /\ HasCov
            /\ w.start_ms = ceil_ts_to_tf(Max2(Cov.start_ms, OrElse(rs, Cov.start_ms)), tf)
            /\ w.end_ms_excl = floor_ts_to_tf(Min2(Cov.end_ms, OrElse(re, Cov.end_ms)), tf)
            /\ w.start_ms % tf_ms = 0
            /\ w.end_ms_excl % tf_ms = 0
            /\ w.start_ms < w.end_ms_excl
            /\ Cov.start_ms <= w.start_ms
            /\ w.end_ms_excl <= Cov.end_ms
            /\ rs # None => rs[1] <= w.start_ms
            /\ re # None => w.end_ms_excl <= re[1]
            /\ (re # None /\ re[1] > Cov.end_ms) => w.end_ms_excl = Cov.end_ms

\* A window was returned for a request that starts off the grid inside
\* coverage and ends beyond it.
C13_Witness ==
    /\ Resolved
    /\ fn_ret[1].ok
    /\ fn_arg.requested_start_ms # None
    /\ fn_arg.requested_start_ms[1] > Cov.start_ms
    /\ fn_arg.requested_start_ms[1] % timeframe_to_ms(fn_arg.timeframe) # 0
    /\ fn_arg.requested_end_ms # None
    /\ fn_arg.requested_end_ms[1] > Cov.end_ms

\* The clamped and aligned window of the call is empty.
ClampedAlignedEmpty ==
    floor_ts_to_tf(Min2(Cov.end_ms, OrElse(fn_arg.requested_end_ms, Cov.end_ms)),
                   fn_arg.timeframe)
      <= ceil_ts_to_tf(Max2(Cov.start_ms, OrElse(fn_arg.requested_start_ms, Cov.start_ms)),
                       fn_arg.timeframe)

\* C14: the resolver raises, returning no window, exactly when the series has
\* no coverage row or the clamped and aligned window is empty; a returned
\* window is never empty; and the call changes no bar, coverage row or
\* known-missing row.
C14_ResolverFails ==
    [][(fn_arg'.fn = "resolve_bar_window_from_coverage" /\ fn_ret' # None) =>
          /\ (~fn_ret'[1].ok) <=> (~HasCov' \/ ClampedAlignedEmpty')
          /\ fn_ret'[1].ok => fn_ret'[1].end_ms_excl > fn_ret'[1].start_ms
          /\ fn_arg' # fn_arg =>
                /\ bars' = bars
                /\ history_coverage' = history_coverage
                /\ known_missing' = known_missing]_vars

\* The resolver raised because alignment emptied a window that clamping had
\* left non-empty.
C14_Witness ==
    /\ Resolved
    /\ fn_ret = Some(Raises("Resolved empty *aligned* bar window"))
    /\ HasCov

C15Case ==
    /\ Resolved
    /\ fn_arg.timeframe = Tf(5, "m")
    /\ fn_arg.requested_start_ms = Some(120000)
    /\ fn_arg.requested_end_ms = Some(1000000)
    /\ HasCov
    /\ Cov.start_ms = 100000
    /\ Cov.end_ms = 900000

\* C15: with coverage [100000, 900000) for 5m and the requested window
\* [120000, 1000000], the resolver returns [120000, 900000).
C15_ExampleAsStated == C15Case => fn_ret = Some(Window(120000, 900000))

\* C15 (as the code has it): with coverage [100000, 900000) for 5m and the
\* requested window [120000, 1000000], the resolver returns [300000, 900000):
\* the start is raised to the next 5m boundary.
C15_ExampleAligned == C15Case => fn_ret = Some(Window(300000, 900000))

\* The example's call has been made.
C15_Witness == C15Case /\ fn_ret # None

(***************************************************************************)
(* Contiguous-window selection: resolve_contiguous_window in               *)
(* packages/common/backfill/sqlite_store.py, and its call in               *)
(* apps/runtime/main.py                                                    *)
(***************************************************************************)
\* Number of one-minute grid points of the series the window is selected in.
ContigMinutes == 5

\* The first row that follows a gap (ORDER BY ts_ms ASC).
LastGapRow_first(table, timeframe, start_ms, end_ms_excl) ==
    LET ordered == OrderByTs({ r \in table : r.ts_ms >= start_ms /\ r.ts_ms < end_ms_excl })
        after_gap == { ordered[i + 1].ts_ms : i \in
                        { j \in 1 .. (Len(ordered) - 1) :
                            (ordered[j + 1].ts_ms - ordered[j].ts_ms) # timeframe_to_ms(timeframe) } }
    IN  IF after_gap = {} THEN None ELSE Some(SetMin(after_gap))

\* The last row that follows a gap: ORDER BY ts_ms DESC LIMIT 1 over the
\* rows whose distance to their predecessor in the window is not tf_ms.
LastGapRow(table, timeframe, start_ms, end_ms_excl) ==
    LET ordered == OrderByTs({ r \in table : r.ts_ms >= start_ms /\ r.ts_ms < end_ms_excl })
        after_gap == { ordered[i + 1].ts_ms : i \in
                        { j \in 1 .. (Len(ordered) - 1) :
                            (ordered[j + 1].ts_ms - ordered[j].ts_ms) # timeframe_to_ms(timeframe) } }
    IN  IF after_gap = {} THEN None ELSE Some(SetMax(after_gap))

resolve_contiguous_window(table, timeframe, start_ms, end_ms_excl) ==
    LET row == LastGapRow(table, timeframe, start_ms, end_ms_excl)
    IN  IF row = None THEN Window(start_ms, end_ms_excl)
        ELSE LET new_start == ceil_ts_to_tf(row[1], timeframe)
             IN  IF end_ms_excl <= new_start
                 THEN Raises("Contiguous window empty after trimming for gaps")
                 ELSE Window(new_start, end_ms_excl)

\* Parameters of resolve_contiguous_window, and the keywords the runtime
\* calls it with.
ContigParameters ==
    { "db_path", "venue", "symbol", "timeframe", "start_ms", "end_ms_excl" }

RuntimeContigKeywords == ContigParameters \cup { "min_window_candles" }

\* main.py 162-190: the runtime's call; any exception falls back to the
\* window it passed in.
RuntimeContiguousWindow(table, timeframe, start_ms, end_ms_excl) ==
    LET r == IF RuntimeContigKeywords \subseteq ContigParameters
             THEN resolve_contiguous_window(table, timeframe, start_ms, end_ms_excl)
             ELSE Raises("TypeError")
    IN  [result |-> r,
         chosen |-> IF r.ok THEN r ELSE Window(start_ms, end_ms_excl)]

ContigTimes == { k * BASE_TF_MS : k \in 0 .. (ContigMinutes - 1) } \cup OffGridTimes

ContigStarts == { 0, BASE_TF_MS }

ContigEnds == { 2 * BASE_TF_MS, ContigMinutes * BASE_TF_MS }

\* A store an earlier backfill left, and no call yet.
ContigInit ==
    /\ upstream = {}
    /\ bars \in { [tf \in StoreTfs |-> IF tf = BASE_TIMEFRAME
                                        THEN { UpstreamBar(t) : t \in T } ELSE {}] :
                    T \in SUBSET ContigTimes }
    /\ clock = 0
    /\ ohlcv_1m = {}
    /\ history_coverage = {}
    /\ pending = {}
    /\ pc = "idle"
    /\ req = NoRequest
    /\ win = NoWindow
    /\ cursor = 0
    /\ pages = 0
    /\ fetched = {}
    /\ outcome = "none"
    /\ repeat = FALSE
    /\ all_ok = TRUE
    /\ AggIdle
    /\ known_missing = {}
    /\ RepairIdle
    /\ FnIdle

\* A call of resolve_contiguous_window with the parameters it has.
ResolveContiguous(start_ms, end_ms_excl) ==
    /\ fn_arg' = [fn |-> "resolve_contiguous_window", timeframe |-> BASE_TIMEFRAME,
                  start_ms |-> start_ms, end_ms_excl |-> end_ms_excl,
                  min_window_candles |-> 1]
    /\ fn_ret' = Some(resolve_contiguous_window(bars[BASE_TIMEFRAME], BASE_TIMEFRAME,
                                                start_ms, end_ms_excl))
    /\ UNCHANGED <<upstream, clock, store_vars, call_vars, agg_vars, known_missing,
                   repair_vars>>

\* The call run_simfill_backtest makes, with min_window_candles=500.
RuntimeResolveContiguous(start_ms, end_ms_excl) ==
    /\ fn_arg' = [fn |-> "resolve_contiguous_window", timeframe |-> BASE_TIMEFRAME,
                  start_ms |-> start_ms, end_ms_excl |-> end_ms_excl,
                  min_window_candles |-> 500]
    /\ fn_ret' = Some(RuntimeContiguousWindow(bars[BASE_TIMEFRAME], BASE_TIMEFRAME,
                                              start_ms, end_ms_excl).result)
    /\ UNCHANGED <<upstream, clock, store_vars, call_vars, agg_vars, known_missing,
                   repair_vars>>

ContigNext ==
    \/ \E a \in ContigStarts, b \in ContigEnds : ResolveContiguous(a, b)
    \/ \E a \in ContigStarts, b \in ContigEnds : RuntimeResolveContiguous(a, b)

SpecContig == ContigInit /\ [][ContigNext]_vars

(***************************************************************************)
(* Properties of resolve_contiguous_window, checked under SpecContig.      *)
(***************************************************************************)
\* Grid points of the window of the call.
SegmentBounds ==
    { fn_arg.start_ms + k * timeframe_to_ms(fn_arg.timeframe) : k \in 0 .. ContigMinutes }

\* [a, b) lies in the window of the call and every grid point of it has a
\* stored bar.
GapFreeSegment(a, b) ==
    /\ fn_arg.start_ms <= a
    /\ a < b
    /\ b <= fn_arg.end_ms_excl
    /\ \A t \in { x \in SegmentBounds : a <= x /\ x < b } :
          t \in TsOf(bars[fn_arg.timeframe])

\* Length of the longest gap-free segment of the window, 0 when there is none.
LongestSegmentMs ==
    SetMax({ 0 } \cup { p[2] - p[1] : p \in
                          { q \in SegmentBounds \X SegmentBounds :
                              GapFreeSegment(q[1], q[2]) } })

\* C16: resolve_contiguous_window returns the longest gap-free segment of the
\* window when that segment is at least min_window_candles * tf_ms long, and
\* otherwise fails with a diagnostic that carries the longest segment length.
C16_LongestSegment ==
    fn_arg.fn = "resolve_contiguous_window" =>
        LET need == fn_arg.min_window_candles * timeframe_to_ms(fn_arg.timeframe)
        IN  IF LongestSegmentMs >= need
            THEN /\ fn_ret[1].ok
                 /\ GapFreeSegment(fn_ret[1].start_ms, fn_ret[1].end_ms_excl)
                 /\ fn_ret[1].end_ms_excl - fn_ret[1].start_ms = LongestSegmentMs
            ELSE fn_ret[1] = [ok |-> FALSE, error |-> "No contiguous segment",
                              longest |-> LongestSegmentMs]

(***************************************************************************)
(* Synthetic fill: packages/market_data/synthetic_fill.py                  *)
(***************************************************************************)
\* Number of one-minute grid points of the stored series that is filled.
FillMinutes == 5

RuntimeBar(bar, synthetic) == [bar |-> bar, synthetic |-> synthetic]

make_synthetic_bar_keeps_volume(ts_ms, prev_close) ==
    OHLCV(ts_ms, prev_close, prev_close, prev_close, prev_close, 1)

make_synthetic_bar(ts_ms, prev_close) ==
    OHLCV(ts_ms, prev_close, prev_close, prev_close, prev_close, 0)

\* State of the iterator between two steps of the outer loop: the index of
\* next_real in the input (past the end when next_real is None), last_close
\* and have_anchor.
FillState(i, last_close, have_anchor) ==
    [i |-> i, last_close |-> last_close, have_anchor |-> have_anchor]

\* The inner loop: consume the real bars whose ts_ms is below the cursor at_ms.
RECURSIVE ConsumeBefore(_, _, _)
ConsumeBefore(input, st, at_ms) ==
    IF st.i <= Len(input) /\ input[st.i].ts_ms < at_ms
    THEN ConsumeBefore(input, FillState(st.i + 1, Some(input[st.i].close), TRUE), at_ms)
    ELSE st

RealAtCursor_never(input, st, at_ms) == FALSE

RealAtCursor(input, st, at_ms) ==
    st.i <= Len(input) /\ input[st.i].ts_ms = at_ms

CanSynthesize_never(st) == FALSE

CanSynthesize(st) == st.have_anchor /\ st.last_close # None

\* The outer loop from one cursor position at_ms on; out is what has been yielded so far.
RECURSIVE FillFrom(_, _, _, _, _, _)
FillFrom(input, st0, at_ms, end_ms_excl, tf_ms, out) ==
    IF ~(at_ms < end_ms_excl) THEN out
    ELSE LET st == ConsumeBefore(input, st0, at_ms)
         IN  IF RealAtCursor(input, st, at_ms)
             THEN FillFrom(input,
                           FillState(st.i + 1, Some(input[st.i].close), TRUE),
                           at_ms + tf_ms, end_ms_excl, tf_ms,
                           Append(out, RuntimeBar(input[st.i], FALSE)))
             ELSE FillFrom(input, st, at_ms + tf_ms, end_ms_excl, tf_ms,
                           IF CanSynthesize(st)
                           THEN Append(out, RuntimeBar(
                                    make_synthetic_bar(at_ms, st.last_close[1]), TRUE))
                           ELSE out)

fill_missing_bars(input, start_ms, end_ms_excl, tf_ms) ==
    FillFrom(input, FillState(1, None, FALSE), start_ms, end_ms_excl, tf_ms, <<>>)

\* The stored bars of [start_ms, end_ms_excl) in ascending ts_ms order.
read_bars_tf(table, start_ms, end_ms_excl) ==
    OrderByTs({ r \in table : r.ts_ms >= start_ms /\ r.ts_ms < end_ms_excl })

FillCloses == { 10, 20 }

FillBar(t, c) == OHLCV(t, c - 1, c + 1, c - 2, c, 3)

FillTimes == { k * BASE_TF_MS : k \in 0 .. (FillMinutes - 1) } \cup OffGridTimes

FillStarts == { 0, BASE_TF_MS }

FillEnds == { 3 * BASE_TF_MS, 3 * BASE_TF_MS + 30000, FillMinutes * BASE_TF_MS }

\* The stored series: any set of bars with one bar per ts_ms.
FillTables ==
    { { FillBar(t, f[t]) : t \in T } : f \in [FillTimes -> FillCloses], T \in SUBSET FillTimes }

FillInit ==
    /\ upstream = {}
    /\ bars \in { [tf \in StoreTfs |-> IF tf = BASE_TIMEFRAME THEN table ELSE {}] :
                    table \in FillTables }
    /\ clock = 0
    /\ ohlcv_1m = {}
    /\ history_coverage = {}
    /\ pending = {}
    /\ pc = "idle"
    /\ req = NoRequest
    /\ win = NoWindow
    /\ cursor = 0
    /\ pages = 0
    /\ fetched = {}
    /\ outcome = "none"
    /\ repeat = FALSE
    /\ all_ok = TRUE
    /\ AggIdle
    /\ known_missing = {}
    /\ RepairIdle
    /\ FnIdle

\* run_simfill_backtest, main.py 193-213: load the sparse series of the
\* window and fill it.
FillMissingBars(start_ms, end_ms_excl) ==
    LET sparse_run == read_bars_tf(bars[BASE_TIMEFRAME], start_ms, end_ms_excl)
    IN  /\ fn_arg' = [fn |-> "fill_missing_bars", bars |-> sparse_run,
                      start_ms |-> start_ms, end_ms_excl |-> end_ms_excl,
                      tf_ms |-> timeframe_to_ms(BASE_TIMEFRAME)]
        /\ fn_ret' = Some(fill_missing_bars(sparse_run, start_ms, end_ms_excl,
                                            timeframe_to_ms(BASE_TIMEFRAME)))
        /\ UNCHANGED <<upstream, clock, store_vars, call_vars, agg_vars, known_missing,
                       repair_vars>>

FillNext == \E a \in FillStarts, b \in FillEnds : FillMissingBars(a, b)

SpecFill == FillInit /\ [][FillNext]_vars

(***************************************************************************)
(* Properties of fill_missing_bars, checked under SpecFill.                *)
(***************************************************************************)
Filled == fn_arg.fn = "fill_missing_bars"

FillOut == fn_ret[1]

\* The grid points of the call: start_ms + k * tf_ms below end_ms_excl.
FillGrid ==
    { g \in { fn_arg.start_ms + k * fn_arg.tf_ms : k \in 0 .. (FillMinutes + 1) } :
        g < fn_arg.end_ms_excl }

InputOnGrid == \A i \in 1 .. Len(fn_arg.bars) : fn_arg.bars[i].ts_ms \in FillGrid

RECURSIVE RealItems(_)
RealItems(out) ==
    IF out = <<>> THEN <<>>
    ELSE IF Head(out).synthetic THEN RealItems(Tail(out))
         ELSE <<Head(out).bar>> \o RealItems(Tail(out))

HasSynthetic == \E i \in 1 .. Len(FillOut) : FillOut[i].synthetic

\* C17: for a sorted input with unique ts_ms that lies in the window on the
\* grid start_ms + k * tf_ms, the items with synthetic = false are exactly the
\* input bars, once each, in the same order, with unchanged fields.
C17_RoundTrip ==
    (Filled /\ InputOnGrid) => RealItems(FillOut) = fn_arg.bars

C17_Witness ==
    /\ Filled
    /\ InputOnGrid
    /\ Len(fn_arg.bars) >= 2
    /\ HasSynthetic
    /\ RealItems(FillOut) = fn_arg.bars

CeilDiv(a, b) == (a + b - 1) \div b

\* C18: the emitted items have strictly ascending ts_ms with every consecutive
\* difference equal to tf_ms, cover every grid point from the first real bar's
\* ts_ms up to the last grid point below end_ms_excl exactly once, and there
\* are at most ceil((end_ms_excl - start_ms) / tf_ms) of them.
C18_DenseAfterAnchor ==
    Filled =>
        /\ \A i \in 1 .. (Len(FillOut) - 1) :
              FillOut[i + 1].bar.ts_ms - FillOut[i].bar.ts_ms = fn_arg.tf_ms
        /\ fn_arg.bars # <<>> =>
              \A g \in { x \in FillGrid : x >= fn_arg.bars[1].ts_ms } :
                  Cardinality({ i \in 1 .. Len(FillOut) : FillOut[i].bar.ts_ms = g }) = 1
        /\ Len(FillOut) <= CeilDiv(fn_arg.end_ms_excl - fn_arg.start_ms, fn_arg.tf_ms)

C18_Witness ==
    /\ Filled
    /\ Len(fn_arg.bars) >= 2
    /\ fn_arg.bars[1].ts_ms > fn_arg.start_ms
    /\ HasSynthetic
    /\ Len(FillOut) >= 3
    /\ \A i \in 1 .. (Len(FillOut) - 1) :
          FillOut[i + 1].bar.ts_ms - FillOut[i].bar.ts_ms = fn_arg.tf_ms

LatestCloseBefore(t) ==
    LET prior == { i \in 1 .. Len(fn_arg.bars) : fn_arg.bars[i].ts_ms < t }
    IN  IF prior = {} THEN None
        ELSE Some(fn_arg.bars[CHOOSE i \in prior :
                      \A j \in prior : fn_arg.bars[j].ts_ms <= fn_arg.bars[i].ts_ms].close)

\* C20: every synthetic bar emitted at t has open = high = low = close = the
\* close of the latest real input bar with ts_ms < t, and volume 0.
C20_SyntheticBar ==
    Filled =>
        \A i \in 1 .. Len(FillOut) :
            FillOut[i].synthetic =>
                LET t == FillOut[i].bar.ts_ms
                    c == LatestCloseBefore(t)
                IN  /\ c # None
                    /\ FillOut[i].bar = OHLCV(t, c[1], c[1], c[1], c[1], 0)

\* The example: anchor at 60000 with close 10, next real bar at 240000.
C20_Witness ==
    /\ Filled
    /\ Len(fn_arg.bars) = 2
    /\ fn_arg.bars[1] = FillBar(60000, 10)
    /\ fn_arg.bars[2].ts_ms = 240000
    /\ FillOut = << RuntimeBar(fn_arg.bars[1], FALSE),
                    RuntimeBar(OHLCV(120000, 10, 10, 10, 10, 0), TRUE),
                    RuntimeBar(OHLCV(180000, 10, 10, 10, 10, 0), TRUE),
                    RuntimeBar(fn_arg.bars[2], FALSE) >>

(***************************************************************************)
(* The upsert statements of the bar tables: upsert_tf, upsert_1m and       *)
(* upsert_agg in packages/common/backfill/sqlite_store.py                  *)
(***************************************************************************)
\* Most rows of one upsert call.
MaxBatch == 2

\* upsert_agg: one INSERT ... ON CONFLICT DO UPDATE per row, in order.
RECURSIVE upsert_agg(_, _)
upsert_agg(table, rows) ==
    IF rows = <<>> THEN table
    ELSE upsert_agg(UpsertRow(table, Head(rows)), Tail(rows))

\* upsert_1m hands its rows to upsert_tf for the base timeframe.
upsert_1m(table, rows) == upsert_tf(table, rows)

UpsertTimes == { 0, BASE_TF_MS }

UpsertRows == { FillBar(t, c) : t \in UpsertTimes, c \in FillCloses }

UpsertBatches ==
    UNION { [1 .. n -> UpsertRows] : n \in 1 .. MaxBatch }

UpsertInit == KnownMissingInit

\* A backfill or repair page written to bars_1m.
Upsert1m(rows) ==
    /\ bars' = [bars EXCEPT ![BASE_TIMEFRAME] = upsert_1m(bars[BASE_TIMEFRAME], rows)]
    /\ fn_arg' = [fn |-> "upsert", tf |-> BASE_TIMEFRAME, rows |-> rows]
    /\ fn_ret' = Some(Len(rows))
    /\ UNCHANGED <<upstream, clock, ohlcv_1m, history_coverage, pending, call_vars,
                   agg_vars, known_missing, repair_vars>>

\* Aggregated bars written to the table of a derived timeframe.
UpsertAgg(rows) ==
    /\ bars' = [bars EXCEPT ![DerivedTf] = upsert_agg(bars[DerivedTf], rows)]
    /\ fn_arg' = [fn |-> "upsert", tf |-> DerivedTf, rows |-> rows]
    /\ fn_ret' = Some(Len(rows))
    /\ UNCHANGED <<upstream, clock, ohlcv_1m, history_coverage, pending, call_vars,
                   agg_vars, known_missing, repair_vars>>

UpsertNext ==
    \/ \E rows \in UpsertBatches : Upsert1m(rows)
    \/ \E rows \in UpsertBatches : UpsertAgg(rows)

SpecUpsert == UpsertInit /\ [][UpsertNext]_vars

(***************************************************************************)
(* Properties of the upserts, checked under SpecUpsert.                    *)
(***************************************************************************)
\* The last row of a batch with the key ts.
LastRowWithKey(rows, ts) ==
    rows[SetMax({ i \in 1 .. Len(rows) : rows[i].ts_ms = ts })]

BatchKeys(rows) == { rows[i].ts_ms : i \in 1 .. Len(rows) }

\* C21: bars are never deleted: the keys of every per-timeframe series only
\* grow, there is at most one row per key, and an upsert of an existing key
\* leaves the row with the new open/high/low/close/volume while every other
\* row stays as it was.
C21_BarsNeverDeleted ==
    [][ /\ \A tf \in StoreTfs :
              /\ TsOf(bars[tf]) \subseteq TsOf(bars'[tf])
              /\ Cardinality(bars'[tf]) = Cardinality(TsOf(bars'[tf]))
        /\ fn_arg'.fn = "upsert" =>
              /\ \A tf \in StoreTfs \ { fn_arg'.tf } : bars'[tf] = bars[tf]
              /\ TsOf(bars'[fn_arg'.tf]) = TsOf(bars[fn_arg'.tf]) \cup BatchKeys(fn_arg'.rows)
              /\ \A x \in bars'[fn_arg'.tf] :
                    IF x.ts_ms \in BatchKeys(fn_arg'.rows)
                    THEN x = LastRowWithKey(fn_arg'.rows, x.ts_ms)
                    ELSE x \in bars[fn_arg'.tf] ]_vars

\* A batch that writes one key twice with different values: the later row is
\* the one stored.
C21_Witness ==
    /\ fn_arg.fn = "upsert"
    /\ Len(fn_arg.rows) = 2
    /\ fn_arg.rows[1].ts_ms = fn_arg.rows[2].ts_ms
    /\ fn_arg.rows[1] # fn_arg.rows[2]
    /\ fn_arg.rows[2] \in bars[fn_arg.tf]
    /\ fn_arg.rows[1] \notin bars[fn_arg.tf]
    /\ Cardinality(bars[fn_arg.tf]) = 2

(***************************************************************************)
(* The known-missing catalogue under repeated recording:                   *)
(* record_known_missing_range in packages/common/backfill/sqlite_store.py  *)
(***************************************************************************)
\* The two reasons repair_gaps records.
CatalogReasons == { "binance_no_data", "binance_no_data_probe_empty" }

CatalogRanges ==
    { GapRange(0, BASE_TF_MS), GapRange(0, 2 * BASE_TF_MS) }

CatalogInit == KnownMissingInit

\* One call of record_known_missing_range followed by the caller's commit;
\* updated_at_ms is the reading of now_ms() the caller passes.
RecordRange(tf, r, reason, now) ==
    /\ now >= clock
    /\ clock' = now
    /\ known_missing' =
          record_known_missing_range(known_missing,
              KnownMissingRow(TheSeries, tf, r.start_ms, r.end_ms_excl, reason, now))
    /\ fn_arg' = [fn |-> "record_known_missing_range",
                  row |-> KnownMissingRow(TheSeries, tf, r.start_ms, r.end_ms_excl,
                                          reason, now)]
    /\ fn_ret' = None
    /\ UNCHANGED <<upstream, store_vars, call_vars, agg_vars, repair_vars>>

\* A query between recordings.
QueryRange(tf, r) ==
    /\ fn_arg' = [fn |-> "is_known_missing_range", series |-> TheSeries, tf |-> tf,
                  start_ms |-> r.start_ms, end_ms_excl |-> r.end_ms_excl]
    /\ fn_ret' = Some(is_known_missing_range(known_missing, TheSeries, tf,
                                             r.start_ms, r.end_ms_excl))
    /\ UNCHANGED <<upstream, clock, store_vars, call_vars, agg_vars, known_missing,
                   repair_vars>>

CatalogNext ==
    \/ \E tf \in StoreTfs, r \in CatalogRanges, reason \in CatalogReasons, now \in NowValues :
          RecordRange(tf, r, reason, now)
    \/ \E tf \in StoreTfs, r \in CatalogRanges : QueryRange(tf, r)

SpecCatalog == CatalogInit /\ [][CatalogNext]_vars

(***************************************************************************)
(* Properties of the catalogue, checked under SpecCatalog.                 *)
(***************************************************************************)
\* C22: the known-missing catalogue is append-only: no row is removed or
\* changed by any step, there is one row per key, and recording a range whose
\* key already exists leaves the catalogue, with the row's original reason and
\* timestamp, as it was.
C22_CatalogAppendOnly ==
    [][ /\ known_missing \subseteq known_missing'
        /\ \A a \in known_missing', b \in known_missing' :
              SameKnownMissingKey(a, b) => a = b
        /\ (/\ fn_arg'.fn = "record_known_missing_range"
            /\ \E k \in known_missing : SameKnownMissingKey(k, fn_arg'.row))
              => known_missing' = known_missing ]_vars

\* A recording met a row of the same key that has another reason and another
\* timestamp, and that row is still there.
C22_Witness ==
    /\ fn_arg.fn = "record_known_missing_range"
    /\ \E k \in known_missing :
          /\ SameKnownMissingKey(k, fn_arg.row)
          /\ k.reason # fn_arg.row.reason
          /\ k.updated_at_ms # fn_arg.row.updated_at_ms
    /\ fn_arg.row \notin known_missing

(***************************************************************************)
(* The probe step of repair_gaps, checked under SpecRepair.                *)
(***************************************************************************)
\* The window fetch at the cursor returns an empty page.
WindowFetchEmpty ==
    fetch_ohlcv(rp_cursor, WindowEndExcl, RepairChunkLimit) = <<>>

\* The limit=1 probe from the same start returns nothing, or a first bar at or
\* after the end of the window.
ProbeShowsNoData ==
    LET probe == fetch_ohlcv(rp_cursor, GapEndExcl(rp_gaps[rp_i]), 1)
    IN  probe = <<>> \/ probe[1].ts_ms >= WindowEndExcl

\* The catalogue gained exactly one row, for the window at the cursor.
RecordedWindow ==
    \E row \in known_missing' :
        /\ known_missing' = known_missing \cup { row }
        /\ row \notin known_missing
        /\ row.series = TheSeries
        /\ row.timeframe = RepairTf
        /\ row.start_ms = rp_cursor
        /\ row.end_ms_excl = WindowEndExcl

\* C30: in the chunk loop, whenever the window fetch returns an empty page and
\* the limit=1 probe returns nothing or a first bar at or after the end of the
\* window, exactly the range [window_start, window_end) is recorded as
\* known-missing in the step that moves the cursor on; no other step records a
\* known-missing row.
C30_ProbeRecordsWindow ==
    [][ IF /\ rp_pc = "chunks"
           /\ rp_outcome' # "AdapterError"
           /\ ~is_known_missing_range(known_missing, TheSeries, RepairTf,
                                      rp_cursor, WindowEndExcl)
           /\ WindowFetchEmpty
           /\ ProbeShowsNoData
        THEN /\ RecordedWindow
             /\ rp_cursor' = WindowEndExcl \/ rp_i' > rp_i
        ELSE known_missing' = known_missing ]_vars

\* A run that filled one window and recorded another one after an empty probe.
C30_Witness ==
    /\ rp_outcome = "done"
    /\ rp_wrote # {}
    /\ \E k \in rp_recorded :
          /\ k \in known_missing
          /\ k.reason = "binance_no_data_probe_empty"
          /\ AdapterCall(k.start_ms, k.end_ms_excl, RepairChunkLimit) \in rp_calls

(***************************************************************************)
(* The adapter on any response of the server: fetch_ohlcv in               *)
(* packages/adapters/binance_spot/backfill.py                              *)
(***************************************************************************)
\* Most rows of one response.
MaxResponse == 3

\* A row of the JSON response: [open_time, open, high, low, close, volume].
Kline(t) == <<t, 1, 2, 1, 2, 1>>

\* backfill.py 68-80: each row becomes an OHLCV.
RECURSIVE ParseKlines(_)
ParseKlines(data) ==
    IF data = <<>> THEN <<>>
    ELSE <<OHLCV(Head(data)[1], Head(data)[2], Head(data)[3], Head(data)[4],
                 Head(data)[5], Head(data)[6])>> \o ParseKlines(Tail(data))

\* Insert b behind the rows of a sorted list that are not after it.
RECURSIVE InsertByTs(_, _)
InsertByTs(sorted, b) ==
    IF sorted = <<>> THEN <<b>>
    ELSE IF Head(sorted).ts_ms <= b.ts_ms
         THEN <<Head(sorted)>> \o InsertByTs(Tail(sorted), b)
         ELSE <<b>> \o sorted

\* out.sort(key=lambda x: x.ts_ms): a stable sort.
RECURSIVE SortByTs(_)
SortByTs(out) ==
    IF out = <<>> THEN <<>>
    ELSE InsertByTs(SortByTs(SubSeq(out, 1, Len(out) - 1)), out[Len(out)])

\* backfill.py 68-83: what fetch_ohlcv returns for a 200 response `data`.
AdapterPage(data, end_ms) ==
    SelectSeq(SortByTs(ParseKlines(data)), LAMBDA b : b.ts_ms < end_ms)

ResponseTimes == { 0, BASE_TF_MS, 2 * BASE_TF_MS }

Responses ==
    UNION { [1 .. n -> { Kline(t) : t \in ResponseTimes }] : n \in 0 .. MaxResponse }

AdapterStarts == { BASE_TF_MS }

AdapterEnds == { 2 * BASE_TF_MS, 3 * BASE_TF_MS }

AdapterLimits == { 1, 2 }

AdapterInit == KnownMissingInit

\* The request is answered with status 200 and the rows `data`.
FetchOhlcv(start_ms, end_ms, limit, data) ==
    /\ fn_arg' = [fn |-> "fetch_ohlcv", start_ms |-> start_ms, end_ms |-> end_ms,
                  limit |-> limit, data |-> data]
    /\ fn_ret' = Some(AdapterPage(data, end_ms))
    /\ UNCHANGED <<upstream, clock, store_vars, call_vars, agg_vars, known_missing,
                   repair_vars>>

\* backfill.py 85-90: every attempt failed.
FetchOhlcvExhausted(start_ms, end_ms, limit) ==
    /\ fn_arg' = [fn |-> "fetch_ohlcv raises", start_ms |-> start_ms, end_ms |-> end_ms,
                  limit |-> limit, data |-> <<>>]
    /\ fn_ret' = Some(Raises("RuntimeError"))
    /\ UNCHANGED <<upstream, clock, store_vars, call_vars, agg_vars, known_missing,
                   repair_vars>>

AdapterNext ==
    \/ \E a \in AdapterStarts, b \in AdapterEnds, n \in AdapterLimits, data \in Responses :
          FetchOhlcv(a, b, n, data)
    \/ \E a \in AdapterStarts, b \in AdapterEnds, n \in AdapterLimits :
          FetchOhlcvExhausted(a, b, n)

SpecAdapter == AdapterInit /\ [][AdapterNext]_vars

(***************************************************************************)
(* Properties of the adapter, checked under SpecAdapter.                   *)
(***************************************************************************)
\* C24: for every response of the server, the list fetch_ohlcv returns is
\* sorted ascending by ts_ms, holds only bars with start_ms <= ts_ms < end_ms,
\* and is at most limit long.
C24_AdapterPage ==
    fn_arg.fn = "fetch_ohlcv" =>
        LET page == fn_ret[1]
        IN  /\ \A i \in 1 .. (Len(page) - 1) : page[i].ts_ms <= page[i + 1].ts_ms
            /\ \A i \in 1 .. Len(page) :
                  fn_arg.start_ms <= page[i].ts_ms /\ page[i].ts_ms < fn_arg.end_ms
            /\ Len(page) <= fn_arg.limit

(***************************************************************************)
(* Properties of the stored bars, checked under Spec.                      *)
(***************************************************************************)
\* C25: in every reachable state every stored bar of every timeframe has
\* ts_ms mod tf_ms = 0 and low <= min(open, close) <= max(open, close) <= high.
C25_StoredBarsValid ==
    \A tf \in StoreTfs :
        \A r \in bars[tf] :
            /\ r.ts_ms % timeframe_to_ms(tf) = 0
            /\ r.low <= Min2(r.open, r.close)
            /\ Min2(r.open, r.close) <= Max2(r.open, r.close)
            /\ Max2(r.open, r.close) <= r.high

\* The last call found the history up to date: it returned from the tail-update
\* branch without entering the paging loop.
UpToDateReturned ==
    /\ pc = "idle"
    /\ outcome = PlantAfterBackfill
    /\ req # NoRequest
    /\ pages = 0
    /\ cursor >= win.end_ms
    /\ bars[BASE_TIMEFRAME] # {}

\* C27: when the series is not empty and max(max_ts + tf_ms, start_ms) >= end_ms
\* the backfill fetches nothing, and on return the coverage row of the series
\* is [min_ts, max_ts + tf_ms).
C27_UpToDateRefreshesCoverage ==
    UpToDateReturned =>
        /\ fetched = {}
        /\ get_coverage(history_coverage, BASE_TIMEFRAME) # None
        /\ get_coverage(history_coverage, BASE_TIMEFRAME)[1].start_ms =
              get_min_ts(bars[BASE_TIMEFRAME])[1]
        /\ get_coverage(history_coverage, BASE_TIMEFRAME)[1].end_ms =
              get_max_ts(bars[BASE_TIMEFRAME])[1] + timeframe_to_ms(BASE_TIMEFRAME)

\* C28: a coverage row of a series exists only if the series holds at least one
\* stored bar; a bootstrap whose first page is empty creates no coverage row.
C28_CoverageOnlyWithBars ==
    \A tf \in StoreTfs :
        get_coverage(history_coverage, tf) # None => bars[tf] # {}

(***************************************************************************)
(* MarketDataPlant.ensure_history on invalid input: a malformed timeframe  *)
(* token, a misordered date range, a venue without an adapter.             *)
(***************************************************************************)
\* The adapters the entry points register: apps/backfiller/main.py 53.
RegisteredVenues == { "binance_spot" }

Venues == RegisteredVenues \cup { "kraken" }

\* A token _TIMEFRAME_RE does not match.
MalformedTf == Tf(5, "x")

MalformedRequests ==
    [start_date : StartDates, end_date : EndDates, timeframes : { <<MalformedTf>> }]

\* plant.py 72-100 and service.py 38-45: the range is in order, the plant
\* delegates to the service, and the service finds no adapter for the venue:
\* KeyError before the database is opened.
EnsureHistoryNoAdapter(venue, r, now) ==
    /\ pc = "idle"
    /\ now >= clock
    /\ venue \notin RegisteredVenues
    /\ LET w == [start_ms |-> ResolveStartMs(r), end_ms |-> ResolveEndMs(r, now)]
       IN  /\ w.end_ms > w.start_ms
           /\ repeat' = IsRepeat(r, w)
           /\ win' = w
    /\ clock' = now
    /\ req' = r
    /\ outcome' = "KeyError"
    /\ all_ok' = FALSE
    /\ cursor' = 0
    /\ pages' = 0
    /\ fetched' = {}
    /\ UNCHANGED <<upstream, store_vars, pc, agg_vars, ext_vars>>

\* Every call has invalid input.  A malformed token among the timeframes is
\* not looked at before the base backfill: the plant passes [base_tf] to the
\* service and parses the other tokens in its loop over derived timeframes.
InvalidNext ==
    \/ \E r \in Requests \cup MalformedRequests, now \in NowValues :
          EnsureHistoryInvalid(r, now)
    \/ \E v \in Venues, r \in Requests, now \in NowValues : EnsureHistoryNoAdapter(v, r, now)
    \/ \E r \in MalformedRequests, now \in NowValues : EnsureHistoryUpToDate(r, now)
    \/ \E r \in MalformedRequests, now \in NowValues : EnsureHistoryBegin(r, now)
    \/ PageEmpty
    \/ PageMore
    \/ PageLast
    \/ FetchFails

SpecInvalid == Init /\ [][InvalidNext]_vars

\* The last call has returned, with an error.
FailedWithError ==
    /\ pc = "idle"
    /\ outcome \in { "ValueError", "KeyError", "TypeError", "AdapterError" }

\* C23: a call of ensure_history with a malformed timeframe token, a date range
\* with end <= start or a venue without a registered adapter fails with an
\* error and leaves bars, coverage rows and known-missing rows as they were:
\* when no other call is made, the store stays as it was created.
C23_InvalidInputNoWrites ==
    (pc = "idle" /\ outcome # "none") =>
        /\ FailedWithError
        /\ \A tf \in StoreTfs : bars[tf] = {}
        /\ history_coverage = {}
        /\ known_missing = {}

(***************************************************************************)
(* The paging loop on any adapter: BackfillService._backfill_1m in         *)
(* packages/common/backfill/service.py                                     *)
(***************************************************************************)
\* Number of one-minute grid points up to end_ms, and most rows of a page.
PagingMinutes == 3
MaxPage == 2

\* service.py 163-164: the cursor after a page.
NextCursor(rows) ==
    floor_ts_to_tf(rows[Len(rows)].ts_ms, BASE_TIMEFRAME) + timeframe_to_ms(BASE_TIMEFRAME)

CursorAdvanced_always(next_cursor, at_ms) == TRUE

\* service.py 165: the guard against a cursor that does not move on.
CursorAdvanced(next_cursor, at_ms) == ~(next_cursor <= at_ms)

\* Timestamps an adapter may return: on and off the grid, before the cursor,
\* at and after end_ms.
PagingTimes ==
    { k * BASE_TF_MS : k \in 0 .. PagingMinutes } \cup OffGridTimes

\* Any page: empty, unsorted, repeating, outside the requested range.
AnyPages ==
    UNION { [1 .. n -> { UpstreamBar(t) : t \in PagingTimes }] : n \in 0 .. MaxPage }

\* Where the service starts the loop: start_ms, or max_ts + tf_ms.
PagingStarts == { 0 } \cup OffGridTimes

PagingEnd == PagingMinutes * BASE_TF_MS

PagingInit == KnownMissingInit

\* service.py 97, 139-144: _backfill_1m is entered with start_ms < end_ms.
BackfillBegin(start_ms) ==
    /\ pc = "idle"
    /\ start_ms < PagingEnd
    /\ pc' = "paging"
    /\ win' = [start_ms |-> start_ms, end_ms |-> PagingEnd]
    /\ cursor' = start_ms
    /\ pages' = 0
    /\ fetched' = {}
    /\ outcome' = "running"
    /\ fn_arg' = [fn |-> "_backfill_1m", start_ms |-> start_ms, end_ms |-> PagingEnd,
                  calls |-> 0]
    /\ fn_ret' = None
    /\ UNCHANGED <<upstream, clock, store_vars, req, repeat, all_ok, agg_vars,
                   known_missing, repair_vars>>

\* service.py 145-155: the adapter returns an empty page and the loop breaks.
BackfillEmptyPage ==
    /\ pc = "paging"
    /\ pc' = "idle"
    /\ outcome' = "empty page"
    /\ fn_arg' = [fn_arg EXCEPT !.calls = @ + 1]
    /\ fn_ret' = Some(pages)
    /\ UNCHANGED <<upstream, clock, store_vars, req, win, cursor, pages, fetched, repeat,
                   all_ok, agg_vars, known_missing, repair_vars>>

\* service.py 145-169 and 144: a page is upserted and committed; the loop goes
\* on when the cursor moved and is still below end_ms.
BackfillPage(rows) ==
    /\ pc = "paging"
    /\ rows # <<>>
    /\ bars' = [bars EXCEPT ![BASE_TIMEFRAME] = upsert_1m(bars[BASE_TIMEFRAME], rows)]
    /\ pages' = pages + 1
    /\ fetched' = fetched \cup { rows[i] : i \in 1 .. Len(rows) }
    /\ fn_arg' = [fn_arg EXCEPT !.calls = @ + 1]
    /\ IF ~CursorAdvanced(NextCursor(rows), cursor)
       THEN /\ pc' = "idle"
            /\ outcome' = "cursor did not advance"
            /\ fn_ret' = Some(pages + 1)
            /\ cursor' = cursor
       ELSE IF NextCursor(rows) < win.end_ms
       THEN /\ cursor' = NextCursor(rows)
            /\ UNCHANGED <<pc, outcome, fn_ret>>
       ELSE /\ pc' = "idle"
            /\ outcome' = "end reached"
            /\ fn_ret' = Some(pages + 1)
            /\ cursor' = NextCursor(rows)
    /\ UNCHANGED <<upstream, clock, ohlcv_1m, history_coverage, pending, req, win, repeat,
                   all_ok, agg_vars, known_missing, repair_vars>>

\* The adapter raises; the exception leaves the loop.
BackfillAdapterRaises ==
    /\ pc = "paging"
    /\ pc' = "idle"
    /\ outcome' = "AdapterError"
    /\ fn_arg' = [fn_arg EXCEPT !.calls = @ + 1]
    /\ fn_ret' = Some(Raises("RuntimeError"))
    /\ UNCHANGED <<upstream, clock, store_vars, req, win, cursor, pages, fetched, repeat,
                   all_ok, agg_vars, known_missing, repair_vars>>

PagingNext ==
    \/ \E a \in PagingStarts : BackfillBegin(a)
    \/ BackfillEmptyPage
    \/ \E rows \in AnyPages : BackfillPage(rows)
    \/ BackfillAdapterRaises

SpecPaging == PagingInit /\ [][PagingNext]_vars

(***************************************************************************)
(* Properties of the paging loop, checked under SpecPaging.                *)
(***************************************************************************)
InBackfill == fn_arg.fn = "_backfill_1m"

\* C26: the paging loop terminates for every adapter behaviour: an iteration
\* that continues has strictly increased the cursor, the loop is left on an
\* empty page, on a cursor that did not advance or with the cursor at or after
\* end_ms, and it makes at most ceil((end_ms - start_ms) / tf_ms) adapter calls.
C26_PagingTerminates ==
    /\ [](InBackfill =>
            /\ fn_arg.calls <= CeilDiv(fn_arg.end_ms - fn_arg.start_ms,
                                       timeframe_to_ms(BASE_TIMEFRAME))
            /\ pc = "paging" => cursor < win.end_ms
            /\ (pc = "idle" /\ outcome = "end reached") => cursor >= win.end_ms)
    /\ [][(pc = "paging" /\ pc' = "paging") => cursor' > cursor]_vars

\* A loop that used every call the bound allows and stopped because the last
\* page did not move the cursor.
C26_Witness ==
    /\ InBackfill
    /\ pc = "idle"
    /\ outcome = "cursor did not advance"
    /\ fn_arg.calls >= 2
    /\ fn_arg.calls = CeilDiv(fn_arg.end_ms - fn_arg.start_ms,
                              timeframe_to_ms(BASE_TIMEFRAME))

(***************************************************************************)
(* The gap scanner as a function of the stored series: find_gaps_tf in     *)
(* packages/common/backfill/sqlite_store.py                                *)
(***************************************************************************)
GapScans ==
    { NoScan,
      [start_ms |-> Some(BASE_TF_MS), end_ms_excl |-> Some((ContigMinutes - 1) * BASE_TF_MS)] }

GapLimits == { 1, 2, FIND_GAPS_LIMIT }

\* The stored series is any set of bars on ContigTimes, as in ContigInit.
GapsInit == ContigInit

FindGaps(scan, limit) ==
    /\ fn_arg' = [fn |-> "find_gaps_tf", tf |-> BASE_TIMEFRAME, scan |-> scan,
                  limit |-> limit]
    /\ fn_ret' = Some(find_gaps_tf(bars[BASE_TIMEFRAME], BASE_TIMEFRAME, scan.start_ms,
                                   scan.end_ms_excl, limit))
    /\ UNCHANGED <<upstream, clock, store_vars, call_vars, agg_vars, known_missing,
                   repair_vars>>

GapsNext == \E scan \in GapScans, limit \in GapLimits : FindGaps(scan, limit)

SpecGaps == GapsInit /\ [][GapsNext]_vars

(***************************************************************************)
(* Properties of find_gaps_tf, checked under SpecGaps.                     *)
(***************************************************************************)
\* The stored timestamps inside the scan window of the call.
ScannedTs ==
    { t \in TsOf(bars[fn_arg.tf]) :
        /\ (fn_arg.scan.start_ms # None => t >= fn_arg.scan.start_ms[1])
        /\ (fn_arg.scan.end_ms_excl # None => t < fn_arg.scan.end_ms_excl[1]) }

\* One range [prev + tf_ms, next) per pair of consecutive stored bars that are
\* more than tf_ms apart, in ascending order.
RECURSIVE RangesOfPairs(_)
RangesOfPairs(ts) ==
    IF Cardinality(ts) < 2 THEN <<>>
    ELSE LET prev == SetMin(ts)
             next == SetMin(ts \ { prev })
         IN  IF next - prev > timeframe_to_ms(fn_arg.tf)
             THEN <<GapRange(prev + timeframe_to_ms(fn_arg.tf), next)>>
                      \o RangesOfPairs(ts \ { prev })
             ELSE RangesOfPairs(ts \ { prev })

\* Grid points between the first and the last scanned bar that have no bar.
MissingGridPoints ==
    IF ScannedTs = {} THEN {}
    ELSE { t \in { k * timeframe_to_ms(fn_arg.tf) : k \in 0 .. ContigMinutes } :
             /\ SetMin(ScannedTs) < t
             /\ t < SetMax(ScannedTs)
             /\ t \notin ScannedTs }

\* C29: find_gaps_tf returns, in ascending order and capped at limit, exactly
\* one range [prev + tf_ms, next) for every pair of consecutive stored bars of
\* the scan window with next - prev > tf_ms; the ranges are pairwise disjoint,
\* contain no stored bar and, when the cap is not reached, together contain
\* every grid point between the first and the last stored bar that has no bar.
C29_GapsOfPairs ==
    fn_arg.fn = "find_gaps_tf" =>
        LET gaps == fn_ret[1]
            expected == RangesOfPairs(ScannedTs)
        IN  /\ gaps = Take(expected, fn_arg.limit)
            /\ \A i \in 1 .. Len(gaps), j \in 1 .. Len(gaps) :
                  i < j => gaps[i].end_ms_excl <= gaps[j].start_ms
            /\ \A i \in 1 .. Len(gaps) : \A t \in ScannedTs :
                  ~(gaps[i].start_ms <= t /\ t < gaps[i].end_ms_excl)
            /\ Len(expected) <= fn_arg.limit =>
                  \A t \in MissingGridPoints : \E i \in 1 .. Len(gaps) :
                      gaps[i].start_ms <= t /\ t < gaps[i].end_ms_excl

(***************************************************************************)
(* repair_gaps against the adapter port: BackfillAdapter.fetch_ohlcv of    *)
(* packages/common/backfill/types.py may answer a call with any page, or   *)
(* raise.  A step is one pass of the gap loop or of the chunk loop.        *)
(***************************************************************************)
\* Number of one-minute grid points of the series repaired through the port.
PortMinutes == 8

PortTimes == { k * BASE_TF_MS : k \in 0 .. (PortMinutes - 1) } \cup OffGridTimes

\* Scan bounds: none, or a window that leaves out the first and the last minute.
PortScans ==
    { NoScan,
      [start_ms |-> Some(BASE_TF_MS), end_ms_excl |-> Some((PortMinutes - 1) * BASE_TF_MS)] }

\* The candle at t with other values than UpstreamBar(t): a revised candle.
RevisedBar(t) == OHLCV(t, 1, 3, 1, 3, 2)

\* The bars the port serves: every candle, and the off-grid one also revised.
PortBars == { UpstreamBar(t) : t \in PortTimes } \cup { RevisedBar(t) : t \in OffGridTimes }

\* Answers of the port: no bar, one bar, or two candles one minute apart.
PortPages ==
    { <<>> } \cup { <<b>> : b \in PortBars }
        \cup { <<UpstreamBar(k * BASE_TF_MS), UpstreamBar((k + 1) * BASE_TF_MS)>> :
                   k \in 0 .. (PortMinutes - 2) }

\* Every bar of the page is inside the requested range [start_ms, end_ms).
InRequestedRange(page, start_ms, end_ms) ==
    \A i \in 1 .. Len(page) : start_ms <= page[i].ts_ms /\ page[i].ts_ms < end_ms

\* The locals of a run of repair_gaps, and what the run has seen so far:
\* `attempted` (repair.py 80, 95), the adapter calls made for the gap being
\* repaired, the last step with the pages it got, whether every page so far
\* was inside its requested range, and the store as the run found it.
RepairRun(attempted, gap_calls, step, rows, probe, honoured, before) ==
    [fn |-> "repair_gaps", attempted |-> attempted, gap_calls |-> gap_calls,
     step |-> step, rows |-> rows, probe |-> probe, honoured |-> honoured,
     before |-> before]

RunStep(step, rows, probe, calls) ==
    [fn_arg EXCEPT !.step = step, !.rows = rows, !.probe = probe,
                   !.gap_calls = fn_arg.gap_calls + calls]

\* repair.py 49-80: scan for gaps and return 0 when there is none.
PortBegin(scan) ==
    /\ rp_pc = "idle"
    /\ rp_outcome = "none"
    /\ LET gaps == find_gaps_tf(bars[RepairTf], RepairTf, scan.start_ms,
                                scan.end_ms_excl, RepairMaxRanges)
       IN  /\ rp_gaps' = gaps
           /\ IF gaps = <<>>
              THEN /\ rp_pc' = "idle"
                   /\ rp_i' = 0
                   /\ rp_outcome' = "no_gaps"
                   /\ fn_ret' = Some(0)
              ELSE /\ rp_pc' = "gaps"
                   /\ rp_i' = 1
                   /\ rp_outcome' = "running"
                   /\ fn_ret' = None
    /\ rp_scan' = scan
    /\ fn_arg' = RepairRun(0, 0, "begin", <<>>, <<>>, TRUE, bars[RepairTf])
    /\ UNCHANGED <<upstream, clock, store_vars, call_vars, agg_vars, known_missing,
                   rp_cursor, rp_calls, rp_wrote, rp_recorded, rp_prev>>

\* repair.py 81-93: an empty or too long gap is passed over.
PortGapSkip ==
    /\ rp_pc = "gaps"
    /\ rp_i <= Len(rp_gaps)
    /\ ~GapAttempted(rp_gaps[rp_i])
    /\ rp_i' = rp_i + 1
    /\ fn_arg' = RunStep("skip_gap", <<>>, <<>>, 0)
    /\ UNCHANGED <<upstream, clock, store_vars, call_vars, agg_vars, known_missing,
                   rp_pc, rp_scan, rp_gaps, rp_cursor, rp_calls, rp_wrote, rp_recorded,
                   rp_prev, rp_outcome, fn_ret>>

\* repair.py 95-112: the gap counts as attempted and its chunk loop starts.
PortGapEnter ==
    /\ rp_pc = "gaps"
    /\ rp_i <= Len(rp_gaps)
    /\ GapAttempted(rp_gaps[rp_i])
    /\ rp_cursor' = GapCursor(rp_gaps[rp_i])
    /\ IF GapCursor(rp_gaps[rp_i]) < GapEndExcl(rp_gaps[rp_i])
       THEN /\ rp_pc' = "chunks"
            /\ rp_i' = rp_i
       ELSE /\ rp_pc' = "gaps"
            /\ rp_i' = rp_i + 1
    /\ fn_arg' = [fn_arg EXCEPT !.attempted = fn_arg.attempted + 1, !.gap_calls = 0,
                                !.step = "enter_gap", !.rows = <<>>, !.probe = <<>>]
    /\ UNCHANGED <<upstream, clock, store_vars, call_vars, agg_vars, known_missing,
                   rp_scan, rp_gaps, rp_calls, rp_wrote, rp_recorded, rp_prev,
                   rp_outcome, fn_ret>>

\* repair.py 217: after the last gap the number of attempted gaps is returned.
PortReturn ==
    /\ rp_pc = "gaps"
    /\ rp_i > Len(rp_gaps)
    /\ rp_pc' = "idle"
    /\ rp_outcome' = "done"
    /\ fn_arg' = RunStep("return", <<>>, <<>>, 0)
    /\ fn_ret' = Some(fn_arg.attempted)
    /\ UNCHANGED <<upstream, clock, store_vars, call_vars, agg_vars, known_missing,
                   rp_scan, rp_gaps, rp_i, rp_cursor, rp_calls, rp_wrote, rp_recorded,
                   rp_prev>>

\* repair.py 212 and 112: the cursor moves to the end of the window; the
\* chunk loop ends when it has reached the end of the gap.
PortAdvance ==
    /\ rp_cursor' = WindowEndExcl
    /\ IF WindowEndExcl < GapEndExcl(rp_gaps[rp_i])
       THEN UNCHANGED <<rp_pc, rp_i>>
       ELSE /\ rp_pc' = "gaps"
            /\ rp_i' = rp_i + 1

\* repair.py 116-131: a window a recorded range contains is skipped.
PortSkipKnownMissing ==
    /\ rp_pc = "chunks"
    /\ is_known_missing_range(known_missing, TheSeries, RepairTf, rp_cursor, WindowEndExcl)
    /\ PortAdvance
    /\ fn_arg' = RunStep("skip_known_missing", <<>>, <<>>, 0)
    /\ UNCHANGED <<upstream, clock, store_vars, call_vars, agg_vars, known_missing,
                   rp_scan, rp_gaps, rp_calls, rp_wrote, rp_recorded, rp_prev,
                   rp_outcome, fn_ret>>

\* repair.py 133-151: the page of the window is upserted and committed.
PortFill(rows) ==
    /\ rp_pc = "chunks"
    /\ ~is_known_missing_range(known_missing, TheSeries, RepairTf, rp_cursor, WindowEndExcl)
    /\ rows # <<>>
    /\ bars' = [bars EXCEPT ![RepairTf] = upsert_tf(bars[RepairTf], rows)]
    /\ rp_wrote' = rp_wrote \cup { rows[i] : i \in 1 .. Len(rows) }
    /\ rp_calls' = rp_calls \cup { AdapterCall(rp_cursor, WindowEndExcl, RepairChunkLimit) }
    /\ PortAdvance
    /\ fn_arg' = [RunStep("fill", rows, <<>>, 1) EXCEPT
                     !.honoured = fn_arg.honoured
                                    /\ InRequestedRange(rows, rp_cursor, WindowEndExcl)]
    /\ UNCHANGED <<upstream, clock, ohlcv_1m, history_coverage, pending, call_vars,
                   agg_vars, known_missing, rp_scan, rp_gaps, rp_recorded, rp_prev,
                   rp_outcome, fn_ret>>

\* repair.py 152-212: the window's page is empty; the probe with limit=1 up
\* to the end of the gap decides whether the window is recorded.
PortProbe(probe) ==
    /\ rp_pc = "chunks"
    /\ ~is_known_missing_range(known_missing, TheSeries, RepairTf, rp_cursor, WindowEndExcl)
    /\ LET end_excl == GapEndExcl(rp_gaps[rp_i])
           verdict == ProbeVerdict(probe, WindowEndExcl)
           row == KnownMissingRow(TheSeries, RepairTf, rp_cursor, WindowEndExcl,
                                  verdict[1], clock)
       IN  /\ rp_calls' = rp_calls \cup { AdapterCall(rp_cursor, WindowEndExcl, RepairChunkLimit),
                                         AdapterCall(rp_cursor, end_excl, 1) }
           /\ IF verdict = None
              THEN UNCHANGED <<known_missing, rp_recorded>>
              ELSE /\ known_missing' = record_known_missing_range(known_missing, row)
                   /\ rp_recorded' = rp_recorded \cup { row }
           /\ fn_arg' = [RunStep("probe", <<>>, probe, 2) EXCEPT
                            !.honoured = fn_arg.honoured
                                           /\ InRequestedRange(probe, rp_cursor, end_excl)]
    /\ PortAdvance
    /\ UNCHANGED <<upstream, clock, store_vars, call_vars, agg_vars, rp_scan, rp_gaps,
                   rp_wrote, rp_prev, rp_outcome, fn_ret>>

\* repair.py 133 and 214-215: the window fetch raises; the exception leaves
\* repair_gaps, what was committed stays.
PortFetchRaises ==
    /\ rp_pc = "chunks"
    /\ ~is_known_missing_range(known_missing, TheSeries, RepairTf, rp_cursor, WindowEndExcl)
    /\ rp_pc' = "idle"
    /\ rp_outcome' = "AdapterError"
    /\ rp_calls' = rp_calls \cup { AdapterCall(rp_cursor, WindowEndExcl, RepairChunkLimit) }
    /\ fn_arg' = RunStep("raise", <<>>, <<>>, 1)
    /\ UNCHANGED <<upstream, clock, store_vars, call_vars, agg_vars, known_missing,
                   rp_scan, rp_gaps, rp_i, rp_cursor, rp_wrote, rp_recorded, rp_prev,
                   fn_ret>>

\* repair.py 163 and 214-215: the probe raises after an empty window page.
PortProbeRaises ==
    /\ rp_pc = "chunks"
    /\ ~is_known_missing_range(known_missing, TheSeries, RepairTf, rp_cursor, WindowEndExcl)
    /\ rp_pc' = "idle"
    /\ rp_outcome' = "AdapterError"
    /\ rp_calls' = rp_calls \cup { AdapterCall(rp_cursor, WindowEndExcl, RepairChunkLimit),
                                  AdapterCall(rp_cursor, GapEndExcl(rp_gaps[rp_i]), 1) }
    /\ fn_arg' = RunStep("raise", <<>>, <<>>, 2)
    /\ UNCHANGED <<upstream, clock, store_vars, call_vars, agg_vars, known_missing,
                   rp_scan, rp_gaps, rp_i, rp_cursor, rp_wrote, rp_recorded, rp_prev,
                   fn_ret>>

\* The most bars the store holds when the run starts.
MaxStored == 3

\* A catalogue an earlier run left: empty, or one recorded range.
PortCatalogs ==
    { {}, { KnownMissingRow(TheSeries, RepairTf, BASE_TF_MS, 3 * BASE_TF_MS,
                            "binance_no_data", 0) } }

\* A store an earlier backfill left, and the catalogue of an earlier run.
PortInit ==
    /\ upstream = {}
    /\ bars \in { [tf \in StoreTfs |-> IF tf = RepairTf THEN { UpstreamBar(t) : t \in T } ELSE {}] :
                    T \in { S \in SUBSET PortTimes : Cardinality(S) <= MaxStored } }
    /\ clock = 0
    /\ ohlcv_1m = {}
    /\ history_coverage = {}
    /\ pending = {}
    /\ pc = "idle"
    /\ req = NoRequest
    /\ win = NoWindow
    /\ cursor = 0
    /\ pages = 0
    /\ fetched = {}
    /\ outcome = "none"
    /\ repeat = FALSE
    /\ all_ok = TRUE
    /\ AggIdle
    /\ known_missing \in PortCatalogs
    /\ RepairIdle
    /\ FnIdle

PortNext ==
    \/ \E scan \in PortScans : PortBegin(scan)
    \/ PortGapSkip
    \/ PortGapEnter
    \/ PortReturn
    \/ PortSkipKnownMissing
    \/ \E rows \in PortPages : PortFill(rows)
    \/ \E probe \in PortPages : PortProbe(probe)
    \/ PortFetchRaises
    \/ PortProbeRaises

SpecPort == PortInit /\ [][PortNext]_vars

(***************************************************************************)
(* Properties of repair_gaps against the port, checked under SpecPort.     *)
(***************************************************************************)
RunStarted == fn_arg.fn = "repair_gaps"

\* The gap at the head of the gap loop, and its length.
AtGap == rp_pc = "gaps" /\ rp_i <= Len(rp_gaps)

GapLen == rp_gaps[rp_i].end_ms_excl - rp_gaps[rp_i].start_ms

\* C33: a detected gap longer than max_gap_minutes * 60000 ms is passed over
\* in one step that makes no adapter call, writes no bar, records no
\* known-missing row and leaves `attempted` as it is, and the gap loop goes on
\* with the next gap; a gap of exactly max_gap_minutes * 60000 ms is attempted.
C33_LongGapSkipped ==
    [][ /\ (AtGap /\ GapLen > RepairMaxGapMinutes * 60000) =>
              /\ rp_calls' = rp_calls
              /\ bars' = bars
              /\ known_missing' = known_missing
              /\ fn_arg'.attempted = fn_arg.attempted
              /\ rp_pc' = "gaps"
              /\ rp_i' = rp_i + 1
        /\ (AtGap /\ GapLen = RepairMaxGapMinutes * 60000) =>
              /\ fn_arg'.attempted = fn_arg.attempted + 1
              /\ rp_pc' = "chunks" ]_vars

\* A run that passed over a gap that is too long and then filled a window of
\* the next gap, which it attempted.
C33_Witness ==
    /\ RunStarted
    /\ rp_outcome = "done"
    /\ fn_ret = Some(1)
    /\ Len(rp_gaps) = 2
    /\ rp_gaps[1].end_ms_excl - rp_gaps[1].start_ms > RepairMaxGapMinutes * 60000
    /\ \E c \in rp_calls : c.start_ms >= rp_gaps[2].start_ms
    /\ \A c \in rp_calls : c.start_ms >= rp_gaps[1].end_ms_excl
    /\ rp_wrote # {}

\* C31: in the chunk loop, when the window fetch returns an empty page and the
\* probe returns a bar with ts_ms < window_end, the step records no
\* known-missing row, writes no bar and moves the cursor to window_end.
C31_ProbeSeesDataInside ==
    [][ (/\ rp_pc = "chunks"
         /\ fn_arg'.step = "probe"
         /\ fn_arg'.probe # <<>>
         /\ fn_arg'.probe[1].ts_ms < WindowEndExcl) =>
            /\ known_missing' = known_missing
            /\ rp_recorded' = rp_recorded
            /\ bars' = bars
            /\ rp_cursor' = WindowEndExcl ]_vars

\* The state after such a step: the probe saw a bar before the end of the
\* window, which the store does not hold, and nothing is recorded.
C31_Witness ==
    /\ RunStarted
    /\ fn_arg.step = "probe"
    /\ fn_arg.probe # <<>>
    /\ fn_arg.probe[1].ts_ms < rp_cursor
    /\ fn_arg.probe[1].ts_ms \notin TsOf(bars[RepairTf])
    /\ known_missing = {}
    /\ rp_calls # {}

\* Adapter calls a gap of length len allows: two for each chunk window.
MaxGapCalls(len) == 2 * CeilDiv(len, RepairChunkLimit * timeframe_to_ms(RepairTf))

\* The part of the gap that is left at the cursor.
RemainingGap == rp_gaps[rp_i].end_ms_excl - rp_cursor

\* C32: repair_gaps ends for every adapter behaviour.  It attempts at most
\* max_ranges gaps; in every pass of the chunk loop the cursor grows by
\* min(chunk_limit * tf_ms, remaining gap), which is positive; for a gap of
\* length L it makes at most 2 * ceil(L / (chunk_limit * tf_ms)) adapter
\* calls; and the count it returns is the number of gaps it attempted.
C32_RepairTerminates ==
    /\ [](RunStarted =>
            /\ fn_arg.attempted <= RepairMaxRanges
            /\ (rp_pc = "chunks" =>
                  fn_arg.gap_calls <= MaxGapCalls(rp_gaps[rp_i].end_ms_excl
                                                    - rp_gaps[rp_i].start_ms))
            /\ (rp_outcome = "done" =>
                  fn_ret = Some(Cardinality({ i \in 1 .. Len(rp_gaps) :
                                                GapAttempted(rp_gaps[i]) }))))
    /\ [][ (rp_pc = "chunks" /\ rp_outcome' # "AdapterError") =>
              /\ rp_cursor' = rp_cursor + Min2(RepairChunkLimit * timeframe_to_ms(RepairTf),
                                               RemainingGap)
              /\ rp_cursor' > rp_cursor ]_vars

\* The windows the run requested lie in a gap the scanner returned, and in
\* the scan window.
CallInGap(c) ==
    \E i \in 1 .. Len(rp_gaps) :
        rp_gaps[i].start_ms <= c.start_ms /\ c.end_ms <= rp_gaps[i].end_ms_excl

CallInScan(c) ==
    /\ (rp_scan.start_ms # None => rp_scan.start_ms[1] <= c.start_ms)
    /\ (rp_scan.end_ms_excl # None => c.end_ms <= rp_scan.end_ms_excl[1])

\* C40: with an adapter whose pages stay inside the requested range, every
\* adapter call of repair_gaps requests a window inside a detected gap and
\* inside the scan window, every bar the store held when the run started is
\* still stored unchanged, and no step of the run changes a coverage row.
C40_RepairOnlyFillsHoles ==
    /\ [](RunStarted /\ fn_arg.honoured =>
            /\ \A c \in rp_calls : CallInGap(c) /\ CallInScan(c)
            /\ fn_arg.before \subseteq bars[RepairTf])
    /\ [][history_coverage' = history_coverage]_vars

(***************************************************************************)
(* The window resolve_contiguous_window returns, checked under SpecContig. *)
(***************************************************************************)
\* No two consecutive stored bars inside [a, b) differ by anything other
\* than tf_ms.
NoGapInside(a, b) ==
    LET inside == { t \in TsOf(bars[fn_arg.timeframe]) : a <= t /\ t < b }
    IN  \A t \in inside, u \in inside :
            (t < u /\ ~\E v \in inside : t < v /\ v < u) =>
                u - t = timeframe_to_ms(fn_arg.timeframe)

\* C34: the window resolve_contiguous_window returns is a sub-window of the
\* input window in which no two consecutive stored bars differ by anything
\* other than tf_ms, and it is the input window itself when the input window
\* has no such pair.
C34_ContiguousSubWindow ==
    (fn_arg.fn = "resolve_contiguous_window" /\ fn_arg.min_window_candles = 1) =>
        /\ fn_ret[1].ok =>
              /\ fn_arg.start_ms <= fn_ret[1].start_ms
              /\ fn_ret[1].start_ms < fn_ret[1].end_ms_excl
              /\ fn_ret[1].end_ms_excl <= fn_arg.end_ms_excl
              /\ NoGapInside(fn_ret[1].start_ms, fn_ret[1].end_ms_excl)
        /\ NoGapInside(fn_arg.start_ms, fn_arg.end_ms_excl) =>
              fn_ret[1] = Window(fn_arg.start_ms, fn_arg.end_ms_excl)

\* A call whose input window has gaps and whose result is a shorter window
\* that holds at least two stored bars.
C34_Witness ==
    /\ fn_arg.fn = "resolve_contiguous_window"
    /\ fn_arg.min_window_candles = 1
    /\ fn_ret[1].ok
    /\ ~NoGapInside(fn_arg.start_ms, fn_arg.end_ms_excl)
    /\ fn_ret[1].start_ms > fn_arg.start_ms
    /\ Cardinality({ t \in TsOf(bars[fn_arg.timeframe]) :
                       fn_ret[1].start_ms <= t /\ t < fn_ret[1].end_ms_excl }) >= 2

(***************************************************************************)
(* BackfillService.ensure_history against the adapter port, as the plant   *)
(* calls it (timeframes = [base]): packages/common/backfill/service.py.    *)
(* The adapter may answer a call with any page, or raise.                  *)
(***************************************************************************)
\* Requests of the plant: from the epoch to an explicit end date.
ServiceRequests ==
    [start_date : { 0 },
     end_date : { Some(2 * BASE_TF_MS), Some(PagingEnd) },
     timeframes : TimeframeLists]

\* The reading of now_ms() during the calls.
ServiceNow == PagingEnd + 1000

\* service.py 157-169: the page written and committed, and the cursor after it.
PageStepOf(rows) ==
    LET written == upsert_1m(ConnView(bars[BASE_TIMEFRAME], pending), rows)
        db == CommitPage(bars[BASE_TIMEFRAME],
                         { x \in written : x \notin bars[BASE_TIMEFRAME] })
    IN  [db |-> db, next_cursor |-> NextCursor(rows),
         more |-> CursorAdvanced(NextCursor(rows), cursor) /\ NextCursor(rows) < win.end_ms]

\* service.py 145-155 and 97-125: an empty page ends the loop; the coverage
\* row is upserted and committed.
ServicePageEmpty ==
    /\ pc = "paging"
    /\ AfterLoop(bars[BASE_TIMEFRAME], pending)
    /\ fn_arg' = [fn |-> "fetch_ohlcv", at_ms |-> cursor, rows |-> <<>>]
    /\ UNCHANGED <<upstream, clock, ohlcv_1m, req, win, cursor, pages, fetched,
                   repeat, all_ok, agg_vars, known_missing, repair_vars, fn_ret>>

\* service.py 145-169 and 97-125: a page is upserted and committed; the loop
\* goes on when the cursor moved and is below end_ms, otherwise it ends and
\* the coverage row is upserted and committed.
ServicePage(rows) ==
    /\ pc = "paging"
    /\ rows # <<>>
    /\ IF PageStepOf(rows).more
       THEN /\ bars' = [bars EXCEPT ![BASE_TIMEFRAME] = PageStepOf(rows).db.table]
            /\ pending' = PageStepOf(rows).db.pending
            /\ cursor' = PageStepOf(rows).next_cursor
            /\ UNCHANGED <<history_coverage, pc, outcome>>
       ELSE /\ AfterLoop(PageStepOf(rows).db.table, PageStepOf(rows).db.pending)
            /\ cursor' = IF CursorAdvanced(NextCursor(rows), cursor)
                         THEN NextCursor(rows) ELSE cursor
    /\ pages' = pages + 1
    /\ fetched' = fetched \cup { rows[i] : i \in 1 .. Len(rows) }
    /\ fn_arg' = [fn |-> "fetch_ohlcv", at_ms |-> cursor, rows |-> rows]
    /\ UNCHANGED <<upstream, clock, ohlcv_1m, req, win, repeat, all_ok, agg_vars,
                   known_missing, repair_vars, fn_ret>>

ServiceNext ==
    \/ \E r \in ServiceRequests : EnsureHistoryUpToDate(r, ServiceNow)
    \/ \E r \in ServiceRequests : EnsureHistoryBegin(r, ServiceNow)
    \/ ServicePageEmpty
    \/ \E rows \in AnyPages : ServicePage(rows)
    \/ FetchFails

SpecService == PagingInit /\ [][ServiceNext]_vars

(***************************************************************************)
(* Properties of the service against the port, checked under SpecService.  *)
(***************************************************************************)
\* The step commits a non-empty page that leaves the cursor where it is:
\* floor(last.ts_ms) + tf_ms <= cursor.
NonProgressingPage ==
    /\ pc = "paging"
    /\ pages' = pages + 1
    /\ fn_arg'.rows # <<>>
    /\ NextCursor(fn_arg'.rows) <= cursor

\* C37: a non-empty page that does not move the cursor ends the operation
\* with an error, and the coverage row is not updated.
C37_NonProgressFatal ==
    [][ NonProgressingPage =>
            /\ pc' = "idle"
            /\ outcome' \notin { "running", "ok" }
            /\ history_coverage' = history_coverage ]_vars

EnsureWritesDerivedBar ==
    /\ bars'[DerivedTf] # bars[DerivedTf]
    /\ outcome' \notin { "aggregated", "RangeError" }

EnsureWritesDerivedCoverage ==
    \E c \in history_coverage' \ history_coverage : c.timeframe = DerivedTf

\* C35: a call of ensure_history for a derived timeframe runs base backfill,
\* gap repair, derived aggregation and derived coverage upsert in this order:
\* once the base backfill has returned the call goes on to its gap repair and
\* returns normally; a derived bar is written only after the base backfill and
\* the gap repair of the call are over; and a derived coverage row is written
\* only when the derived bars are committed.
C35_PhaseOrder ==
    /\ []((ServiceReturned /\ RequestsDerived) =>
             /\ outcome = "ok"
             /\ rp_outcome \in { "done", "no_gaps" })
    /\ [][EnsureWritesDerivedBar =>
             /\ pc = "idle"
             /\ rp_outcome \in { "done", "no_gaps" }]_vars
    /\ [][EnsureWritesDerivedCoverage =>
             /\ bars[DerivedTf] # {}
             /\ pending = {}]_vars

(***************************************************************************)
(* Resuming an aborted backfill: the calls of one behaviour have the same  *)
(* inputs and meet the same exchange data.                                 *)
(***************************************************************************)
\* Requests with an explicit end date, so that every call has the same range.
ResumeRequests ==
    [start_date : { 0 },
     end_date : { Some(k * BASE_TF_MS) : k \in 2 .. MaxMinutes },
     timeframes : TimeframeLists]

ResumeNow == MaxMinutes * BASE_TF_MS + 1000

\* The first call, or a call that repeats the inputs of the one before it.
SameInputs(r) == IF outcome = "none" THEN TRUE ELSE r = req

ResumeNext ==
    \/ \E r \in ResumeRequests : SameInputs(r) /\ EnsureHistoryUpToDate(r, ResumeNow)
    \/ \E r \in ResumeRequests : SameInputs(r) /\ EnsureHistoryBegin(r, ResumeNow)
    \/ PageEmpty
    \/ PageMore
    \/ PageLast
    \/ FetchFails

SpecResume == Init /\ [][ResumeNext]_vars

\* The base series one uninterrupted run of the paging loop leaves:
\* service.py 144-169 from the cursor at_ms.
RECURSIVE UninterruptedBars(_, _, _)
UninterruptedBars(table, at_ms, end_ms) ==
    LET rows == fetch_ohlcv(at_ms, end_ms, PageLimit)
        next_cursor == NextCursor(rows)
    IN  IF ~(at_ms < end_ms) \/ rows = <<>>
        THEN table
        ELSE IF CursorAdvanced(next_cursor, at_ms)
        THEN UninterruptedBars(upsert_1m(table, rows), next_cursor, end_ms)
        ELSE upsert_1m(table, rows)

\* The range of a coverage row.
RangeOf(c) == [timeframe |-> c.timeframe, start_ms |-> c.start_ms, end_ms |-> c.end_ms]

\* C38: when a backfill was aborted after some committed pages and
\* ensure_history runs again with the same inputs against the same exchange
\* data, the second run starts at max_ts + tf_ms, fetches no bar that is
\* already stored, and ends with the stored bars and the coverage of a single
\* uninterrupted run.
C38_CrashResume ==
    /\ [][(pc = "idle" /\ pc' = "paging" /\ bars[BASE_TIMEFRAME] # {}) =>
             cursor' = SetMax(TsOf(bars[BASE_TIMEFRAME])) + timeframe_to_ms(BASE_TIMEFRAME)]_vars
    /\ [][(pc = "paging" /\ pages' = pages + 1) =>
             \A i \in 1 .. Len(PageStep.rows) :
                 PageStep.rows[i].ts_ms \notin TsOf(bars[BASE_TIMEFRAME])]_vars
    /\ []((ServiceReturned /\ ~all_ok) =>
             /\ bars[BASE_TIMEFRAME] = UninterruptedBars({}, win.start_ms, win.end_ms)
             /\ { RangeOf(c) : c \in history_coverage }
                  = { RangeOf(ServiceCoverageRow(win.start_ms, win.end_ms, clock)) })

====
